---- MODULE Spec2Model ----
(***************************************************************************)
(* A model of the wasmdbg interpreter core: the breakpoint registry        *)
(* (wasmdbg/src/breakpoints.rs), linear memory (wasmdbg/src/vm/memory.rs)  *)
(* and the VM with its execution driver (wasmdbg/src/vm/instance.rs).      *)
(*                                                                         *)
(* 32-bit quantities are kept as the signed integer with the same bit      *)
(* pattern (-2^31 .. 2^31-1); their unsigned reading is taken through the  *)
(* 16-bit halves Hi and Lo, so that sums and products that leave 32 bits   *)
(* are computed exactly.                                                   *)
(***************************************************************************)
EXTENDS Integers, Sequences, FiniteSets, TLC

VARIABLES
    module,       \* the loaded bwasm::Module (File.module), read-only
    breakpoints,  \* the shared Breakpoints registry (File.breakpoints)
    vm,           \* the VM instance
    driver,       \* position of the running driver loop (continue / step_over / step_out)
    last,         \* the most recent VM call, what it returned and the position it fetched
    tick,         \* flips at every execute_step call
    returned,     \* the indices add_breakpoint has returned, in order
    run,          \* the function the current execution was started on
    mlog,         \* the direct Memory calls made so far, each with its result
    halted        \* "panic": the process has aborted; "hang": a call never returned

vars == <<module, breakpoints, vm, driver, last, tick, returned, run, mlog, halted>>

(***************************************************************************)
(* Bounds of the model.                                                    *)
(***************************************************************************)
MaxAdds == 2

\* how many add_breakpoint calls a registry run makes, and how many Memory calls a
\* memory run makes
MaxRegistryAdds == 3
MaxMemOps == 3

\* the blocks each activation of the recursive function `deep` opens before it
\* calls itself, and the depth up to which a run is followed from its start
BlocksPerFrame == 64
ShallowFrames == 2

\* the steps after which a driver loop followed as one call counts as not
\* returning
MaxSteps == 30

(***************************************************************************)
(* Option values.                                                          *)
(***************************************************************************)
None == [some |-> FALSE]
Some(x) == [some |-> TRUE, val |-> x]

(***************************************************************************)
(* 32-bit words by halves.                                                 *)
(***************************************************************************)
HALF == 256 * 256

Hi(x) == (x \div HALF) % HALF
Lo(x) == x % HALF

\* the signed integer carrying the bits hi:lo
Word(hi, lo) == IF hi >= 32768 THEN (hi - HALF) * HALF + lo ELSE hi * HALF + lo

\* unsigned comparison a < b of two words
ULess(a, b) == Hi(a) < Hi(b) \/ (Hi(a) = Hi(b) /\ Lo(a) < Lo(b))

\* a + b as a mathematical sum does not fit 32 bits (both read unsigned)
AddOverflows(a, b) == Hi(a) + Hi(b) + ((Lo(a) + Lo(b)) \div HALF) >= HALF

\* a + b modulo 2^32
WrappingAdd(a, b) ==
    Word((Hi(a) + Hi(b) + ((Lo(a) + Lo(b)) \div HALF)) % HALF, (Lo(a) + Lo(b)) % HALF)

(***************************************************************************)
(* breakpoints.rs                                                          *)
(***************************************************************************)
is_read(trigger) == trigger \in {"Read", "ReadWrite"}
is_write(trigger) == trigger \in {"Write", "ReadWrite"}

CodeBp(pos) == [kind |-> "Code", pos |-> pos]
MemoryBp(trigger, addr) == [kind |-> "Memory", trigger |-> trigger, addr |-> addr]
GlobalBp(trigger, index) == [kind |-> "Global", trigger |-> trigger, index |-> index]

Breakpoints_new ==
    [code |-> {}, memory_read |-> {}, memory_write |-> {},
     global_read |-> {}, global_write |-> {},
     index_map |-> <<>>, next_index |-> 0]

\* HashMap::insert / HashMap::remove on index_map
MapInsert(m, k, v) == [i \in (DOMAIN m) \cup {k} |-> IF i = k THEN v ELSE m[i]]
MapRemove(m, k) == [i \in (DOMAIN m) \ {k} |-> m[i]]

\* The HashMap is iterated in an arbitrary order: find_* may return any of the
\* matching indices, so each is modelled by the set of results it can return.
find_code(b, pos) ==
    LET hits == {i \in DOMAIN b.index_map :
                    b.index_map[i].kind = "Code" /\ b.index_map[i].pos = pos}
    IN  IF pos \in b.code /\ hits # {} THEN {Some(i) : i \in hits} ELSE {None}

find_global(b, global, write) ==
    LET found == IF write THEN global \in b.global_write ELSE global \in b.global_read
        hits == {i \in DOMAIN b.index_map :
                    b.index_map[i].kind = "Global" /\ b.index_map[i].index = global}
    IN  IF found /\ hits # {} THEN {Some(i) : i \in hits} ELSE {None}

\* start <= addr < start + len, the sum taken in 32 bits
InWatchRange(start, len, addr) ==
    /\ ~ULess(addr, start)
    /\ ULess(addr, WrappingAdd(start, len))

find_memory(b, start, len, write) ==
    LET watchpoints == IF write THEN b.memory_write ELSE b.memory_read
        inrange == {a \in watchpoints : InWatchRange(start, len, a)}
        hits == {i \in DOMAIN b.index_map :
                    b.index_map[i].kind = "Memory" /\ b.index_map[i].addr \in inrange}
    IN  IF hits # {} THEN {Some(i) : i \in hits} ELSE {None}

\* the fast-lookup sets after inserting the breakpoint's location
InsertLocation(b, bp) ==
    CASE bp.kind = "Code" -> [b EXCEPT !.code = @ \cup {bp.pos}]
      [] bp.kind = "Memory" ->
            [b EXCEPT !.memory_read = IF is_read(bp.trigger) THEN @ \cup {bp.addr} ELSE @,
                      !.memory_write = IF is_write(bp.trigger) THEN @ \cup {bp.addr} ELSE @]
      [] bp.kind = "Global" ->
            [b EXCEPT !.global_read = IF is_read(bp.trigger) THEN @ \cup {bp.index} ELSE @,
                      !.global_write = IF is_write(bp.trigger) THEN @ \cup {bp.index} ELSE @]

\* a registry that would hand out the lowest index not in use (a variant of
\* add_breakpoint_index against which the no-reuse property is tested)
add_breakpoint_lowest_free(b) ==
    CHOOSE i \in 0..b.next_index :
        /\ i \notin DOMAIN b.index_map
        /\ \A j \in 0..(i - 1) : j \in DOMAIN b.index_map

\* the index add_breakpoint hands out ...
next_fresh_index(b) == b.next_index

add_breakpoint_index(b) == next_fresh_index(b)

\* ... and the registry it leaves
add_breakpoint(b, bp) ==
    LET index == add_breakpoint_index(b)
    IN  [InsertLocation(b, bp) EXCEPT !.index_map = MapInsert(@, index, bp),
                                      !.next_index = b.next_index + 1]

\* the fast-lookup sets after removing the breakpoint's location
RemoveLocation(b, bp) ==
    CASE bp.kind = "Code" -> [b EXCEPT !.code = @ \ {bp.pos}]
      [] bp.kind = "Memory" ->
            [b EXCEPT !.memory_read = IF is_read(bp.trigger) THEN @ \ {bp.addr} ELSE @,
                      !.memory_write = IF is_write(bp.trigger) THEN @ \ {bp.addr} ELSE @]
      [] bp.kind = "Global" ->
            [b EXCEPT !.global_read = IF is_read(bp.trigger) THEN @ \ {bp.index} ELSE @,
                      !.global_write = IF is_write(bp.trigger) THEN @ \ {bp.index} ELSE @]

delete_breakpoint_found(b, index) == index \in DOMAIN b.index_map

delete_breakpoint(b, index) ==
    IF delete_breakpoint_found(b, index)
    THEN [RemoveLocation(b, b.index_map[index]) EXCEPT !.index_map = MapRemove(@, index)]
    ELSE b

clear(b) ==
    [b EXCEPT !.code = {}, !.memory_read = {}, !.memory_write = {},
              !.global_read = {}, !.global_write = {}, !.index_map = <<>>]

(***************************************************************************)
(* vm/memory.rs                                                            *)
(*                                                                         *)
(* The byte buffer is kept as its length, split into whole pages and a     *)
(* remainder (len = pages * PAGE_SIZE + rem), and the map of its non-zero  *)
(* bytes, keyed by the address word; every other byte below len is zero.   *)
(***************************************************************************)
PAGE_SIZE == 65536
MEMORY_MAX_PAGES == 65536

\* a usize length n (small enough to be written as one integer) as pages and remainder
LenOf(n) == [pages |-> n \div PAGE_SIZE, rem |-> n % PAGE_SIZE]
LenLE(a, b) == a.pages < b.pages \/ (a.pages = b.pages /\ a.rem <= b.rem)

\* address + size as a usize, for an address word and a small size
EndOf(address, size) ==
    [pages |-> Hi(address) + ((Lo(address) + size) \div PAGE_SIZE),
     rem |-> (Lo(address) + size) % PAGE_SIZE]

MemLen(mem) == [pages |-> mem.pages, rem |-> mem.rem]

\* address < len
AddrBelow(address, len) ==
    Hi(address) < len.pages \/ (Hi(address) = len.pages /\ Lo(address) < len.rem)

\* Vec::resize(len, 0): bytes at and past len are dropped, new bytes are zero
Resize(mem, len) ==
    [mem EXCEPT !.pages = len.pages, !.rem = len.rem,
                !.data = [a \in {x \in DOMAIN mem.data : AddrBelow(x, len)} |-> mem.data[a]]]

\* the byte at an address below len
ByteAt(mem, address) == IF address \in DOMAIN mem.data THEN mem.data[address] ELSE 0

\* writing one byte at an address below len
SetByte(data, address, byte) ==
    IF byte = 0
    THEN [a \in (DOMAIN data) \ {address} |-> data[a]]
    ELSE [a \in (DOMAIN data) \cup {address} |-> IF a = address THEN byte ELSE data[a]]

RECURSIVE SetBytes(_, _, _)
SetBytes(data, address, bytes) ==
    IF bytes = <<>> THEN data
    ELSE SetBytes(SetByte(data, address, Head(bytes)), WrappingAdd(address, 1), Tail(bytes))

\* the buffer length Memory::new allocates for a memory declared with `initial`
Memory_new_len(initial) == LenOf(initial)

Memory_new(memory) ==
    LET len == Memory_new_len(memory.initial)
    IN  [pages |-> len.pages, rem |-> len.rem, data |-> <<>>, limits |-> memory]

\* one data segment copied into its memory (the loop body of from_module)
ApplyMemoryInit(mem, init) ==
    LET end == EndOf(init.offset, Len(init.data))
        grown == IF ~LenLE(end, MemLen(mem)) THEN Resize(mem, end) ELSE mem
    IN  [grown EXCEPT !.data = SetBytes(@, init.offset, init.data)]

RECURSIVE ApplyMemoryInits(_, _)
ApplyMemoryInits(memories, inits) ==
    IF inits = <<>> THEN memories
    ELSE ApplyMemoryInits(
            [memories EXCEPT ![Head(inits).index + 1] = ApplyMemoryInit(@, Head(inits))],
            Tail(inits))

Memory_from_module(m) ==
    ApplyMemoryInits([i \in 1..Len(m.memories) |-> Memory_new(m.memories[i])], m.memory_inits)

\* data.len() as u32 / PAGE_SIZE
page_count(mem) == mem.pages % HALF

\* whether grow refuses page_count + delta = sum (a word)
grow_refuses(mem, sum) ==
    IF mem.limits.maximum.some
    THEN ULess(mem.limits.maximum.val, sum)
    ELSE ULess(MEMORY_MAX_PAGES, sum)

\* Memory::grow, for a build where arithmetic overflow wraps (release)
grow_wrapping(mem, delta) ==
    LET pc == page_count(mem)
        sum == WrappingAdd(pc, delta)
    IN  IF grow_refuses(mem, sum)
        THEN [panic |-> FALSE, mem |-> mem, ret |-> -1]
        ELSE [panic |-> FALSE, mem |-> Resize(mem, [pages |-> Lo(sum), rem |-> 0]), ret |-> pc]

\* whether a build with overflow checks (debug) panics in grow: at page_count + delta,
\* or at (page_count + delta) * PAGE_SIZE once the sum was accepted
grow_overflows(mem, delta) ==
    LET pc == page_count(mem)
        sum == WrappingAdd(pc, delta)
    IN  \/ AddOverflows(pc, delta)
        \/ (~grow_refuses(mem, sum) /\ Hi(sum) > 0)

\* Memory::grow: the outcomes the two builds can produce
grow(mem, delta) ==
    {grow_wrapping(mem, delta)} \cup
    (IF grow_overflows(mem, delta) THEN {[panic |-> TRUE, mem |-> mem, ret |-> 0]} ELSE {})

\* little-endian bytes of a 32-bit word, and back
to_little_endian32(v) == <<Lo(v) % 256, Lo(v) \div 256, Hi(v) % 256, Hi(v) \div 256>>
from_little_endian32(bytes) == Word(bytes[3] + 256 * bytes[4], bytes[1] + 256 * bytes[2])

\* address + size > len, the trap both load and store raise then
access_out_of_range(mem, address, size) == ~LenLE(EndOf(address, size), MemLen(mem))
out_of_range_trap(address, size) ==
    [trap |-> "MemoryAccessOutOfRange",
     arg |-> Word(EndOf(address, size).pages % HALF, EndOf(address, size).rem),
     expected |-> "", found |-> ""]

\* Memory::load::<u32>: Ok(value) or Err(trap)
load32(mem, address) ==
    IF access_out_of_range(mem, address, 4)
    THEN [ok |-> FALSE, err |-> out_of_range_trap(address, 4)]
    ELSE [ok |-> TRUE,
          val |-> from_little_endian32([k \in 1..4 |-> ByteAt(mem, WrappingAdd(address, k - 1))])]

\* Memory::store::<u32>: Ok(memory) or Err(trap)
store32(mem, address, value) ==
    IF access_out_of_range(mem, address, 4)
    THEN [ok |-> FALSE, err |-> out_of_range_trap(address, 4)]
    ELSE [ok |-> TRUE, mem |-> [mem EXCEPT !.data = SetBytes(@, address, to_little_endian32(value))]]

\* LittleEndianConvert for the integer types of 1, 2, 4 and 8 bytes.  A value
\* of one or two bytes is a natural number, one of four bytes a 32-bit word, one
\* of eight bytes the pair <<high word, low word>>.
to_little_endian(value, size) ==
    CASE size = 1 -> << value % 256 >>
      [] size = 2 -> << value % 256, value \div 256 >>
      [] size = 4 -> to_little_endian32(value)
      [] size = 8 -> to_little_endian32(value[2]) \o to_little_endian32(value[1])

from_little_endian(bytes) ==
    CASE Len(bytes) = 1 -> bytes[1]
      [] Len(bytes) = 2 -> bytes[1] + 256 * bytes[2]
      [] Len(bytes) = 4 -> from_little_endian32(bytes)
      [] Len(bytes) = 8 -> << from_little_endian32(SubSeq(bytes, 5, 8)),
                              from_little_endian32(SubSeq(bytes, 1, 4)) >>

\* Memory::load::<T> for a T of `size` bytes: Ok(value) or Err(trap)
Memory_load(mem, address, size) ==
    IF access_out_of_range(mem, address, size)
    THEN [ok |-> FALSE, err |-> out_of_range_trap(address, size)]
    ELSE [ok |-> TRUE,
          val |-> from_little_endian([k \in 1..size |-> ByteAt(mem, WrappingAdd(address, k - 1))])]

\* Memory::store::<T> for a T of `size` bytes: Ok(memory) or Err(trap)
Memory_store(mem, address, size, value) ==
    IF access_out_of_range(mem, address, size)
    THEN [ok |-> FALSE, err |-> out_of_range_trap(address, size)]
    ELSE [ok |-> TRUE,
          mem |-> [mem EXCEPT !.data = SetBytes(@, address, to_little_endian(value, size))]]

(***************************************************************************)
(* vm/table.rs. A table is the sequence of its elements; the tables of a   *)
(* VM never change after VM::new, so they are read off the module.         *)
(***************************************************************************)
TableElement_Null == [kind |-> "Null", func |-> 0]
TableElement_Func(index) == [kind |-> "Func", func |-> index]

Table_new(table) == [i \in 1..table.initial |-> TableElement_Null]

\* the body of the loop over the entries: push past the end, overwrite inside
table_put(elements, index, ele) ==
    IF index >= Len(elements) THEN Append(elements, ele)
    ELSE [elements EXCEPT ![index + 1] = ele]

\* one element segment (offset not negative) written into its table
RECURSIVE ApplyTableEntries(_, _, _, _)
ApplyTableEntries(elements, offset, entries, i) ==
    IF i >= Len(entries) THEN elements
    ELSE ApplyTableEntries(table_put(elements, i + offset, TableElement_Func(entries[i + 1])),
                           offset, entries, i + 1)

RECURSIVE ApplyTableInits(_, _)
ApplyTableInits(tables, inits) ==
    IF inits = <<>> THEN tables
    ELSE ApplyTableInits(
            [tables EXCEPT ![Head(inits).index + 1] =
                ApplyTableEntries(@, Head(inits).offset, Head(inits).entries, 0)],
            Tail(inits))

Table_from_module(m) ==
    ApplyTableInits([i \in 1..Len(m.tables) |-> Table_new(m.tables[i])], m.table_inits)

\* Table::get for an index word
Table_get(elements, index) ==
    IF index >= 0 /\ index < Len(elements) THEN elements[index + 1] ELSE TableElement_Null

(***************************************************************************)
(* vm/mod.rs: traps and code positions                                     *)
(***************************************************************************)
Trap(name, arg) == [trap |-> name, arg |-> arg, expected |-> "", found |-> ""]
TypeError(expected, found) ==
    [trap |-> "TypeError", arg |-> 0, expected |-> expected, found |-> found]
NoTrap == Trap("none", 0)

BreakpointReached(i) == Trap("BreakpointReached", i)
WatchpointReached(i) == Trap("WatchpointReached", i)

CodePosition(f, i) == [func_index |-> f, instr_index |-> i]
CodePosition_default == CodePosition(0, 0)
NoPosition == CodePosition(-1, -1)

(***************************************************************************)
(* Values, labels, frames (value.rs, vm/instance.rs)                       *)
(***************************************************************************)
I32(v) == [t |-> "i32", v |-> v]
I64(v) == [t |-> "i64", v |-> v]
Value_default(t) == [t |-> t, v |-> 0]

Bound(target) == [kind |-> "Bound", target |-> target]
Unbound == [kind |-> "Unbound", target |-> 0]
Return == [kind |-> "Return", target |-> 0]

Instr(op, arg) == [op |-> op, arg |-> arg]

Front(s) == SubSeq(s, 1, Len(s) - 1)
Last(s) == s[Len(s)]

(***************************************************************************)
(* Module view (bwasm::Module)                                             *)
(***************************************************************************)
get_func(m, index) ==
    IF index >= 0 /\ index < Len(m.functions) THEN Some(m.functions[index + 1]) ELSE None

(***************************************************************************)
(* vm/instance.rs                                                          *)
(*                                                                         *)
(* A VM method is a function from the VM to the outcomes it can have:      *)
(* each outcome is the VM it leaves and how it ended (end): "ok", "err"    *)
(* with the trap, "panic" (the process aborts) or "hang" (it never         *)
(* returns).                                                               *)
(***************************************************************************)
VALUE_STACK_LIMIT == 1024 * 1024
LABEL_STACK_LIMIT == 64 * 1024
FUNCTION_STACK_LIMIT == 1024

Ok(v) == [vm |-> v, end |-> "ok", trap |-> NoTrap]
Err(v, t) == [vm |-> v, end |-> "err", trap |-> t]
Panic(v) == [vm |-> v, end |-> "panic", trap |-> NoTrap]
Hang(v) == [vm |-> v, end |-> "hang", trap |-> NoTrap]

VM_new(m) ==
    [memories |-> Memory_from_module(m),
     ip |-> CodePosition_default,
     globals |-> [i \in 1..Len(m.globals) |-> m.globals[i].init],
     value_stack |-> <<>>,
     label_stack |-> <<>>,
     function_stack |-> <<>>,
     trap |-> NoTrap]

push(v, val) ==
    IF Len(v.value_stack) >= VALUE_STACK_LIMIT
    THEN Err(v, Trap("ValueStackOverflow", 0))
    ELSE Ok([v EXCEPT !.value_stack = Append(@, val)])

\* pop: the outcome, and the value popped when it ended ok
pop(v) ==
    IF v.value_stack = <<>>
    THEN [out |-> Err(v, Trap("PopFromEmptyStack", 0)), val |-> I32(0)]
    ELSE [out |-> Ok([v EXCEPT !.value_stack = Front(@)]), val |-> Last(v.value_stack)]

\* pop_as::<T>: the value is popped before its type is looked at
pop_as(v, t) ==
    LET p == pop(v)
    IN  IF p.out.end = "ok" /\ p.val.t # t
        THEN [out |-> Err(p.out.vm, TypeError(t, p.val.t)), val |-> p.val]
        ELSE p

curr_func(m, v) == get_func(m, v.ip.func_index)

\* the structured-control depth after looking at one instruction (branch, branch_else)
ScanDepth(instr, index) ==
    CASE instr.op \in {"Block", "Loop", "If"} -> index + 1
      [] instr.op = "End" -> index - 1
      [] OTHER -> index

\* the forward scan of branch: the instruction index it stops at, or -1 when it
\* runs off the end of the code (an out-of-bounds index: panic)
RECURSIVE BranchScan(_, _, _)
BranchScan(code, at, index) ==
    IF at >= Len(code) THEN -1
    ELSE LET d == ScanDepth(code[at + 1], index)
         IN  IF d = 0 THEN at ELSE BranchScan(code, at + 1, d)

\* branch, once the label stack is truncated
branch_to_top(m, v, index) ==
    IF v.label_stack = <<>> THEN {Panic(v)}
    ELSE LET top == Last(v.label_stack)
         IN  CASE top.kind = "Bound" -> {Ok([v EXCEPT !.ip.instr_index = top.target])}
               [] top.kind = "Return" -> {Err(v, Trap("InvalidBranchIndex", 0))}
               [] top.kind = "Unbound" ->
                    LET f == curr_func(m, v)
                        stop == IF f.some
                                THEN BranchScan(f.val.instructions, v.ip.instr_index, index + 1)
                                ELSE -1
                    IN  IF ~f.some
                        THEN {Err(v, Trap("NoFunctionWithIndex", v.ip.func_index))}
                        ELSE IF stop < 0 THEN {Panic(v)}
                        ELSE {Ok([v EXCEPT !.ip.instr_index = stop])}

\* a variant of branch_truncate that removes the target label too (against
\* which the label a branch keeps is tested)
branch_truncate_with_target(labels, index) == SubSeq(labels, 1, Len(labels) - index - 1)

\* the label stack branch(index) keeps
branch_truncate(labels, index) == SubSeq(labels, 1, Len(labels) - index)

\* a variant of branch that unwinds the operands too (against which the value
\* stack a control transfer leaves is tested)
branch_unwinding(m, v, index) ==
    branch_to_top(m, [v EXCEPT !.label_stack = branch_truncate(@, index),
                               !.value_stack = <<>>], index)

branch(m, v, index) ==
    IF index > Len(v.label_stack)
    THEN \* label_stack.len() - index underflows: a panic (overflow checks on), or a
         \* huge length that truncate leaves the stack at (overflow checks off)
         {Panic(v)} \cup branch_to_top(m, v, index)
    ELSE branch_to_top(m, [v EXCEPT !.label_stack = branch_truncate(@, index)], index)

\* a variant of ElseScan that stops after the first Else it meets, whatever the
\* nesting (against which the skipping of the Else of a nested If is tested)
RECURSIVE ElseScan_first_else(_, _, _)
ElseScan_first_else(code, at, index) ==
    IF at >= Len(code) THEN -1
    ELSE LET instr == code[at + 1]
         IN  IF instr.op = "Else" THEN at + 1
             ELSE LET d == ScanDepth(instr, index)
                  IN  IF d = 0 THEN at ELSE ElseScan_first_else(code, at + 1, d)

\* the forward scan of branch_else: the instruction index execution resumes at, or -1
RECURSIVE ElseScan(_, _, _)
ElseScan(code, at, index) ==
    IF at >= Len(code) THEN -1
    ELSE LET instr == code[at + 1]
         IN  IF instr.op = "Else" /\ index = 1 THEN at + 1
             ELSE LET d == ScanDepth(instr, index)
                  IN  IF d = 0 THEN at ELSE ElseScan(code, at + 1, d)

branch_else(m, v) ==
    LET f == curr_func(m, v)
        stop == IF f.some THEN ElseScan(f.val.instructions, v.ip.instr_index, 1) ELSE -1
    IN  IF ~f.some THEN {Err(v, Trap("NoFunctionWithIndex", v.ip.func_index))}
        ELSE IF stop < 0 THEN {Panic(v)}
        ELSE {Ok([v EXCEPT !.ip.instr_index = stop])}

\* a variant of call_locals that keeps the parameters in the order they are
\* popped (against which the parameter order is tested)
call_locals_popped_order(func, stack) ==
    [i \in 1..Len(func.params) |-> stack[Len(stack) - i + 1]]
        \o [i \in 1..Len(func.locals) |-> Value_default(func.locals[i])]

\* the locals of a new frame: the parameters in stack order, then zeroed locals
call_locals(func, stack) ==
    SubSeq(stack, Len(stack) - Len(func.params) + 1, Len(stack))
        \o [i \in 1..Len(func.locals) |-> Value_default(func.locals[i])]

call(m, v, index) ==
    LET f == get_func(m, index)
    IN  IF ~f.some THEN Err(v, Trap("NoFunctionWithIndex", index))
        ELSE IF Len(v.value_stack) < Len(f.val.params)
        THEN Err([v EXCEPT !.value_stack = <<>>], Trap("PopFromEmptyStack", 0))
        ELSE LET locals == call_locals(f.val, v.value_stack)
                 v1 == [v EXCEPT !.value_stack =
                                    SubSeq(@, 1, Len(@) - Len(f.val.params))]
             IN  IF Len(v1.label_stack) >= LABEL_STACK_LIMIT
                 THEN Err(v1, Trap("LabelStackOverflow", 0))
                 ELSE LET v2 == [v1 EXCEPT !.label_stack = Append(@, Return)]
                      IN  IF Len(v2.function_stack) >= FUNCTION_STACK_LIMIT
                          THEN Err(v2, Trap("FunctionStackOverflow", 0))
                          ELSE Ok([v2 EXCEPT
                                    !.function_stack =
                                        Append(@, [ret_addr |-> v.ip, locals |-> locals]),
                                    !.ip = CodePosition(index, 0)])

run_func_paused(m, v, index, args) ==
    call(m, [v EXCEPT !.function_stack = <<>>, !.label_stack = <<>>,
                      !.value_stack = args, !.trap = NoTrap,
                      !.ip = CodePosition_default],
         index)

\* the frame pop of End and Return, once a Return label has been popped
return_to_caller(v) ==
    IF v.label_stack # <<>>
    THEN IF v.function_stack = <<>> THEN Panic(v)
         ELSE Ok([v EXCEPT !.function_stack = Front(@),
                           !.ip = Last(v.function_stack).ret_addr])
    ELSE Ok(v)

\* Instruction::End
exec_end(v) ==
    IF v.label_stack = <<>> THEN Ok(v)
    ELSE LET v1 == [v EXCEPT !.label_stack = Front(@)]
         IN  IF Last(v.label_stack).kind = "Return" THEN return_to_caller(v1) ELSE Ok(v1)

\* Instruction::Return: pops labels until a Return label was popped
RECURSIVE exec_return(_)
exec_return(v) ==
    IF v.label_stack = <<>> THEN Hang(v)
    ELSE LET v1 == [v EXCEPT !.label_stack = Front(@)]
         IN  IF Last(v.label_stack).kind = "Return" THEN return_to_caller(v1)
             ELSE exec_return(v1)

\* bool_val
bool_val(val) == IF val THEN 1 ELSE 0

\* a + (-b) modulo 2^32
WrappingNeg(a) == WrappingAdd(Word((HALF - 1) - Hi(a), (HALF - 1) - Lo(a)), 1)
WrappingSub(a, b) == WrappingAdd(a, WrappingNeg(b))

\* Integer::div for i32
div_s(v, a, b) ==
    IF b = 0 THEN Err(v, Trap("DivisionByZero", 0))
    ELSE IF a = -(HALF * (HALF \div 2)) /\ b = -1
    THEN Err(v, Trap("SignedIntegerOverflow", 0))
    ELSE LET q == IF (a < 0) = (b < 0)
                  THEN (IF a < 0 THEN -a ELSE a) \div (IF b < 0 THEN -b ELSE b)
                  ELSE -((IF a < 0 THEN -a ELSE a) \div (IF b < 0 THEN -b ELSE b))
         IN  push(v, I32(q))

\* unop / binop on i32 operands: op names the closure
i32_unop_result(op, x) ==
    CASE op = "I32Eqz" -> bool_val(x = 0)

\* the bytes of a 32-bit word, least significant first
Bytes32(a) == <<Lo(a) % 256, Lo(a) \div 256, Hi(a) % 256, Hi(a) \div 256>>

\* a variant of WrappingMul that adds (against which the product computed by
\* the factorial is tested)
WrappingMul_as_sum(a, b) == WrappingAdd(a, b)

\* u32::wrapping_mul
WrappingMul(a, b) ==
    LET x == Bytes32(a)
        y == Bytes32(b)
        c0 == x[1] * y[1]
        c1 == x[1] * y[2] + x[2] * y[1]
        c2 == x[1] * y[3] + x[2] * y[2] + x[3] * y[1]
        c3 == x[1] * y[4] + x[2] * y[3] + x[3] * y[2] + x[4] * y[1]
        low == c0 + 256 * c1
    IN  Word(((low \div HALF) + c2 + 256 * c3) % HALF, low % HALF)

i32_binop_result(op, a, b) ==
    CASE op = "I32Eq" -> bool_val(a = b)
      [] op = "I32Ne" -> bool_val(a # b)
      [] op = "I32LtS" -> bool_val(a = b)
      [] op = "I32LtU" -> bool_val(a = b)
      [] op = "I32GtS" -> bool_val(a > b)
      [] op = "I32GtU" -> bool_val(ULess(b, a))
      [] op = "I32Add" -> WrappingAdd(a, b)
      [] op = "I32Sub" -> WrappingSub(a, b)
      [] op = "I32Mul" -> WrappingMul(a, b)
      [] op = "I32LeS" -> bool_val(a <= b)

I32UnOps == {"I32Eqz"}
I32BinOps ==
    {"I32Eq", "I32Ne", "I32LtS", "I32LtU", "I32GtS", "I32GtU", "I32LeS", "I32Add", "I32Sub",
     "I32Mul"}

unop(v, op) ==
    LET x == pop_as(v, "i32")
    IN  IF x.out.end # "ok" THEN x.out
        ELSE push(x.out.vm, I32(i32_unop_result(op, x.val.v)))

binop(v, op) ==
    LET b == pop_as(v, "i32")
        a == pop_as(b.out.vm, "i32")
    IN  IF b.out.end # "ok" THEN b.out
        ELSE IF a.out.end # "ok" THEN a.out
        ELSE push(a.out.vm, I32(i32_binop_result(op, a.val.v, b.val.v)))

\* a 64-bit value is the pair <<high word, low word>>: a > b read as i64, as u64
GreaterS64(a, b) == a[1] > b[1] \/ (a[1] = b[1] /\ ULess(b[2], a[2]))
GreaterU64(a, b) == ULess(b[1], a[1]) \/ (a[1] = b[1] /\ ULess(b[2], a[2]))

i64_relop_result(op, a, b) ==
    CASE op = "I64LtS" -> bool_val(a = b)
      [] op = "I64LtU" -> bool_val(a = b)
      [] op = "I64GtS" -> bool_val(GreaterS64(a, b))
      [] op = "I64GtU" -> bool_val(GreaterU64(a, b))

I64RelOps == {"I64LtS", "I64LtU", "I64GtS", "I64GtU"}

\* binop::<u64, u32, _>
binop64(v, op) ==
    LET b == pop_as(v, "i64")
        a == pop_as(b.out.vm, "i64")
    IN  IF b.out.end # "ok" THEN b.out
        ELSE IF a.out.end # "ok" THEN a.out
        ELSE push(a.out.vm, I32(i64_relop_result(op, a.val.v, b.val.v)))

binop_try_div_s(v) ==
    LET b == pop_as(v, "i32")
        a == pop_as(b.out.vm, "i32")
    IN  IF b.out.end # "ok" THEN b.out
        ELSE IF a.out.end # "ok" THEN a.out
        ELSE div_s(a.out.vm, a.val.v, b.val.v)

\* base + offset of a load or store: the address word, or a panic where the sum
\* leaves 32 bits and overflow checks are on
effective_address(base, offset) ==
    {[panic |-> FALSE, address |-> WrappingAdd(base, offset)]} \cup
    (IF AddOverflows(base, offset) THEN {[panic |-> TRUE, address |-> 0]} ELSE {})

\* what a load, store or global access returns after its effect: the watchpoint
\* find_memory / find_global found, if any
watch_outcomes(v, found) ==
    {IF r.some THEN Err(v, WatchpointReached(r.val)) ELSE Ok(v) : r \in found}

\* perform_load::<u32>, once the address is known
load_at(b, v, address) ==
    IF v.memories = <<>> THEN {Err(v, Trap("NoMemory", 0))}
    ELSE LET l == load32(v.memories[1], address)
         IN  IF ~l.ok THEN {Err(v, l.err)}
             ELSE LET p == push(v, I32(l.val))
                  IN  IF p.end # "ok" THEN {p}
                      ELSE watch_outcomes(p.vm, find_memory(b, address, 4, FALSE))

perform_load(b, v, offset) ==
    LET base == pop_as(v, "i32")
    IN  IF base.out.end # "ok" THEN {base.out}
        ELSE UNION {IF a.panic THEN {Panic(base.out.vm)}
                    ELSE load_at(b, base.out.vm, a.address)
                    : a \in effective_address(base.val.v, offset)}

\* a variant of store_at that consults the watchpoints before writing (against
\* which the order of effect and report is tested)
store_at_watch_first(b, v, address, value) ==
    IF v.memories = <<>> THEN {Err(v, Trap("NoMemory", 0))}
    ELSE UNION {IF r.some THEN {Err(v, WatchpointReached(r.val))}
                ELSE LET st == store32(v.memories[1], address, value)
                     IN  IF ~st.ok THEN {Err(v, st.err)}
                         ELSE {Ok([v EXCEPT !.memories[1] = st.mem])}
                : r \in find_memory(b, address, 4, TRUE)}

\* perform_store::<u32>, once the value and the address are known
store_at(b, v, address, value) ==
    IF v.memories = <<>> THEN {Err(v, Trap("NoMemory", 0))}
    ELSE LET st == store32(v.memories[1], address, value)
         IN  IF ~st.ok THEN {Err(v, st.err)}
             ELSE watch_outcomes([v EXCEPT !.memories[1] = st.mem],
                                 find_memory(b, address, 4, TRUE))

perform_store(b, v, offset) ==
    LET value == pop_as(v, "i32")
        base == pop_as(value.out.vm, "i32")
    IN  IF value.out.end # "ok" THEN {value.out}
        ELSE IF base.out.end # "ok" THEN {base.out}
        ELSE UNION {IF a.panic THEN {Panic(base.out.vm)}
                    ELSE store_at(b, base.out.vm, a.address, value.val.v)
                    : a \in effective_address(base.val.v, offset)}

\* Instruction::GrowMemory
exec_grow_memory(v) ==
    LET delta == pop_as(v, "i32")
    IN  IF delta.out.end # "ok" THEN {delta.out}
        ELSE IF delta.out.vm.memories = <<>> THEN {Err(delta.out.vm, Trap("NoMemory", 0))}
        ELSE {IF g.panic THEN Panic(delta.out.vm)
              ELSE push([delta.out.vm EXCEPT !.memories[1] = g.mem], I32(g.ret))
              : g \in grow(delta.out.vm.memories[1], delta.val.v)}

\* Instruction::GetLocal / SetLocal / TeeLocal
exec_get_local(v, index) ==
    IF v.function_stack = <<>> THEN Err(v, Trap("NoFunctionFrame", 0))
    ELSE IF index >= Len(Last(v.function_stack).locals) THEN Panic(v)
    ELSE push(v, Last(v.function_stack).locals[index + 1])

set_local(v, index, val) ==
    IF v.function_stack = <<>> THEN Err(v, Trap("NoFunctionFrame", 0))
    ELSE IF index >= Len(Last(v.function_stack).locals) THEN Panic(v)
    ELSE Ok([v EXCEPT !.function_stack[Len(v.function_stack)].locals[index + 1] = val])

exec_set_local(v, index) ==
    LET p == pop(v)
    IN  IF p.out.end # "ok" THEN p.out ELSE set_local(p.out.vm, index, p.val)

exec_tee_local(v, index) ==
    IF v.value_stack = <<>> THEN Err(v, Trap("PopFromEmptyStack", 0))
    ELSE set_local(v, index, Last(v.value_stack))

\* Instruction::GetGlobal / SetGlobal
exec_get_global(b, v, index) ==
    IF index >= Len(v.globals) THEN {Panic(v)}
    ELSE LET p == push(v, v.globals[index + 1])
         IN  IF p.end # "ok" THEN {p}
             ELSE watch_outcomes(p.vm, find_global(b, index, FALSE))

exec_set_global(b, v, index) ==
    LET p == pop(v)
    IN  IF p.out.end # "ok" THEN {p.out}
        ELSE IF index >= Len(v.globals) THEN {Panic(p.out.vm)}
        ELSE watch_outcomes([p.out.vm EXCEPT !.globals[index + 1] = p.val],
                            find_global(b, index, TRUE))

\* Instruction::If
exec_if(m, v) ==
    LET v1 == [v EXCEPT !.label_stack = Append(@, Unbound)]
        c == pop_as(v1, "i32")
    IN  IF c.out.end # "ok" THEN {c.out}
        ELSE IF c.val.v = 0 THEN branch_else(m, c.out.vm)
        ELSE {c.out}

\* Instruction::BrIf
exec_br_if(m, v, index) ==
    LET c == pop_as(v, "i32")
    IN  IF c.out.end # "ok" THEN {c.out}
        ELSE IF c.val.v # 0 THEN branch(m, c.out.vm, index)
        ELSE {c.out}

\* the depth BrTable takes for an index word: table.get(index as usize), or the
\* default
br_table_depth(table_data, index) ==
    IF index >= 0 /\ index < Len(table_data.table) THEN table_data.table[index + 1]
    ELSE table_data.default

\* Instruction::BrTable
exec_br_table(m, v, table_data) ==
    LET c == pop_as(v, "i32")
    IN  IF c.out.end # "ok" THEN {c.out}
        ELSE branch(m, c.out.vm, br_table_depth(table_data, c.val.v))

\* a variant of call_indirect_checked that skips the comparison of the type
\* (against which IndirectCallTypeMismatch is tested)
call_indirect_unchecked(m, v, func_index, signature) == call(m, v, func_index)

\* CallIndirect once the table element is a function: the type check, the call
call_indirect_checked(m, v, func_index, signature) ==
    LET func == get_func(m, func_index)
    IN  IF ~func.some THEN Err(v, Trap("NoFunctionWithIndex", func_index))
        ELSE IF func.val.type_ref # signature THEN Err(v, Trap("IndirectCallTypeMismatch", 0))
        ELSE call(m, v, func_index)

\* Instruction::CallIndirect
exec_call_indirect(m, v, signature) ==
    LET callee == pop_as(v, "i32")
        tables == Table_from_module(m)
    IN  IF callee.out.end # "ok" THEN callee.out
        ELSE IF tables = <<>> THEN Err(callee.out.vm, Trap("NoTable", 0))
        ELSE LET ele == Table_get(tables[1], callee.val.v)
             IN  IF ele.kind # "Func" THEN Err(callee.out.vm, Trap("IndirectCalleeAbsent", 0))
                 ELSE call_indirect_checked(m, callee.out.vm, ele.func, signature)

\* Instruction::Select
exec_select(v) ==
    LET cond == pop_as(v, "i32")
        val2 == pop(cond.out.vm)
        val1 == pop(val2.out.vm)
    IN  IF cond.out.end # "ok" THEN cond.out
        ELSE IF val2.out.end # "ok" THEN val2.out
        ELSE IF val1.out.end # "ok" THEN val1.out
        ELSE IF cond.val.v # 0 THEN push(val1.out.vm, val1.val)
        ELSE push(val1.out.vm, val2.val)

\* the match of execute_step_internal: the effect of one instruction, ip already
\* advanced
exec_instr(m, b, v, instr) ==
    LET op == instr.op
    IN  CASE op = "Unreachable" -> {Err(v, Trap("ReachedUnreachable", 0))}
          [] op = "Nop" -> {Ok(v)}
          [] op = "Block" -> {Ok([v EXCEPT !.label_stack = Append(@, Unbound)])}
          [] op = "Loop" ->
                {Ok([v EXCEPT !.label_stack = Append(@, Bound(v.ip.instr_index))])}
          [] op = "If" -> exec_if(m, v)
          [] op = "Else" -> branch(m, v, 0)
          [] op = "End" -> {exec_end(v)}
          [] op = "Br" -> branch(m, v, instr.arg)
          [] op = "BrIf" -> exec_br_if(m, v, instr.arg)
          [] op = "BrTable" -> exec_br_table(m, v, instr.arg)
          [] op = "Return" -> {exec_return(v)}
          [] op = "Call" -> {call(m, v, instr.arg)}
          [] op = "CallIndirect" -> {exec_call_indirect(m, v, instr.arg)}
          [] op = "Drop" -> {pop(v).out}
          [] op = "Select" -> {exec_select(v)}
          [] op = "GetLocal" -> {exec_get_local(v, instr.arg)}
          [] op = "SetLocal" -> {exec_set_local(v, instr.arg)}
          [] op = "TeeLocal" -> {exec_tee_local(v, instr.arg)}
          [] op = "GetGlobal" -> exec_get_global(b, v, instr.arg)
          [] op = "SetGlobal" -> exec_set_global(b, v, instr.arg)
          [] op = "I32Load" -> perform_load(b, v, instr.arg)
          [] op = "I32Store" -> perform_store(b, v, instr.arg)
          [] op = "CurrentMemory" ->
                {IF v.memories = <<>> THEN Err(v, Trap("NoMemory", 0))
                 ELSE push(v, I32(page_count(v.memories[1])))}
          [] op = "GrowMemory" -> exec_grow_memory(v)
          [] op = "I32Const" -> {push(v, I32(instr.arg))}
          [] op = "I64Const" -> {push(v, I64(instr.arg))}
          [] op \in I32UnOps -> {unop(v, op)}
          [] op \in I32BinOps -> {binop(v, op)}
          [] op = "I32DivS" -> {binop_try_div_s(v)}

\* the checks that end execute_step_internal
\* a variant of after_instr without the test for the end of the execution
\* (against which ExecutionFinished is tested)
after_instr_unfinished(b, v) ==
    {IF r.some THEN Err(v, BreakpointReached(r.val)) ELSE Ok(v) : r \in find_code(b, v.ip)}

after_instr(b, v) ==
    IF v.label_stack = <<>> THEN {Err(v, Trap("ExecutionFinished", 0))}
    ELSE {IF r.some THEN Err(v, BreakpointReached(r.val)) ELSE Ok(v)
          : r \in find_code(b, v.ip)}

\* execute_step_internal: the outcomes, each with the position it fetched
execute_step_internal(m, b, v) ==
    LET f == get_func(m, v.ip.func_index)
        at(o) == [out |-> o, fetched |-> v.ip]
        none(o) == [out |-> o, fetched |-> NoPosition]
    IN  IF ~f.some THEN {none(Panic(v))}
        ELSE IF f.val.imported
        THEN {none(Err(v, Trap("UnsupportedCallToImportedFunction", v.ip.func_index)))}
        ELSE IF v.ip.instr_index >= Len(f.val.instructions) THEN {none(Panic(v))}
        ELSE LET instr == f.val.instructions[v.ip.instr_index + 1]
                 v1 == [v EXCEPT !.ip.instr_index = @ + 1]
             IN  UNION {IF o.end # "ok" THEN {at(o)}
                        ELSE {at(o2) : o2 \in after_instr(b, o.vm)}
                        : o \in exec_instr(m, b, v1, instr)}

\* a variant of is_sticky that stores every trap (against which the non-sticky
\* pauses are tested)
is_sticky_always(trap) == trap.trap # ""

\* which traps execute_step stores in self.trap
is_sticky(trap) == trap.trap \notin {"BreakpointReached", "WatchpointReached"}

\* a variant of execute_step that neither stores nor replays a trap (against
\* which the sticky traps are tested)
execute_step_unstored(m, b, v) == execute_step_internal(m, b, v)

\* execute_step
execute_step(m, b, v) ==
    IF v.trap # NoTrap THEN {[out |-> Err(v, v.trap), fetched |-> NoPosition]}
    ELSE {IF r.out.end = "err" /\ is_sticky(r.out.trap)
          THEN [r EXCEPT !.out.vm.trap = r.out.trap]
          ELSE r
          : r \in execute_step_internal(m, b, v)}

(***************************************************************************)
(* The modules the model runs.                                             *)
(***************************************************************************)
\* a function with the index of its type in the type section
TypedFunc(type_ref, params, locals, instructions) ==
    [params |-> params, locals |-> locals, instructions |-> instructions,
     imported |-> FALSE, type_ref |-> type_ref]

Func(params, locals, instructions) == TypedFunc(0, params, locals, instructions)

\* main: calls inc, writes the global and the memory, counts the global down in
\* a loop and ends on a division by zero
MainCode ==
    << Instr("I32Const", 1), Instr("Call", 1), Instr("SetGlobal", 0),
       Instr("I32Const", 32), Instr("GetGlobal", 0), Instr("I32Store", 0),
       Instr("I32Const", 32), Instr("I32Load", 0), Instr("Drop", 0),
       Instr("Block", 0), Instr("Loop", 0),
       Instr("GetGlobal", 0), Instr("I32Const", 1), Instr("I32Sub", 0),
       Instr("SetGlobal", 0), Instr("GetGlobal", 0), Instr("BrIf", 0),
       Instr("End", 0), Instr("End", 0),
       Instr("I32Const", 1), Instr("I32Const", 0), Instr("I32DivS", 0),
       Instr("End", 0) >>

\* inc(i32) -> i32
IncCode ==
    << Instr("GetLocal", 0), Instr("I32Const", 1), Instr("I32Add", 0), Instr("End", 0) >>

\* sel(i32) -> i32: an if/else, a branch out of a block, an explicit return
SelCode ==
    << Instr("GetLocal", 0), Instr("If", 0), Instr("I32Const", 10), Instr("Else", 0),
       Instr("I32Const", 20), Instr("End", 0),
       Instr("Block", 0), Instr("Br", 0), Instr("Unreachable", 0), Instr("End", 0),
       Instr("Return", 0), Instr("End", 0) >>

\* grow2: memory.grow 1, twice
Grow2Code ==
    << Instr("I32Const", 1), Instr("GrowMemory", 0),
       Instr("I32Const", 1), Instr("GrowMemory", 0), Instr("End", 0) >>

\* watched: a store to 32..35, a load of 29..32, a store to 28..31, a read and a
\* write of the global
WatchedCode ==
    << Instr("I32Const", 32), Instr("I32Const", 7), Instr("I32Store", 0),
       Instr("I32Const", 29), Instr("I32Load", 0), Instr("Drop", 0),
       Instr("I32Const", 28), Instr("I32Const", 5), Instr("I32Store", 0),
       Instr("GetGlobal", 0), Instr("SetGlobal", 0), Instr("End", 0) >>

\* caller: calls pair(5, 6), drops its result and calls a function that the
\* module does not have
CallerCode ==
    << Instr("I32Const", 5), Instr("I32Const", 6), Instr("Call", 1), Instr("Drop", 0),
       Instr("I32Const", 9), Instr("Call", 3), Instr("End", 0) >>

\* pair(i32, i32) -> i32, with the declared locals i64 and i32
PairCode == << Instr("GetLocal", 1), Instr("End", 0) >>

\* fact(i32) -> i32: n <= 1 ? 1 : n * fact(n - 1)
FactCode ==
    << Instr("GetLocal", 0), Instr("I32Const", 1), Instr("I32LeS", 0),
       Instr("If", 0), Instr("I32Const", 1),
       Instr("Else", 0), Instr("GetLocal", 0),
                         Instr("GetLocal", 0), Instr("I32Const", 1), Instr("I32Sub", 0),
                         Instr("Call", 0), Instr("I32Mul", 0),
       Instr("End", 0), Instr("End", 0) >>

MemoryDecl(initial, maximum) == [initial |-> initial, maximum |-> maximum]
MemoryInit(index, offset, data) == [index |-> index, offset |-> offset, data |-> data]

\* ModuleA: main and inc, one global, one memory with a data segment
ModuleA ==
    [functions |-> << Func(<<>>, <<>>, MainCode), Func(<<"i32">>, <<>>, IncCode) >>,
     globals |-> << [value_type |-> "i32", mutable |-> TRUE, init |-> I32(0)] >>,
     memories |-> << MemoryDecl(1, Some(2)) >>,
     memory_inits |-> << MemoryInit(0, 32, <<9, 9, 9, 9>>) >>,
     tables |-> <<>>,
     table_inits |-> <<>>,
     start_func |-> Some(0)]

\* ModuleB: sel alone
ModuleB ==
    [functions |-> << Func(<<"i32">>, <<>>, SelCode) >>,
     globals |-> <<>>,
     memories |-> <<>>,
     memory_inits |-> <<>>,
     tables |-> <<>>,
     table_inits |-> <<>>,
     start_func |-> None]

\* ModuleC: grow2 and a memory declared initial = 1, maximum = 2
ModuleC ==
    [functions |-> << Func(<<>>, <<>>, Grow2Code) >>,
     globals |-> <<>>,
     memories |-> << MemoryDecl(1, Some(2)) >>,
     memory_inits |-> <<>>,
     tables |-> <<>>,
     table_inits |-> <<>>,
     start_func |-> Some(0)]

\* ModuleW: watched, one global, one memory with a data segment
ModuleW ==
    [functions |-> << Func(<<>>, <<>>, WatchedCode) >>,
     globals |-> << [value_type |-> "i32", mutable |-> TRUE, init |-> I32(0)] >>,
     memories |-> << MemoryDecl(1, None) >>,
     memory_inits |-> << MemoryInit(0, 32, <<9, 9, 9, 9>>) >>,
     tables |-> <<>>,
     table_inits |-> <<>>,
     start_func |-> None]

\* ModuleD: caller and pair
ModuleD ==
    [functions |-> << Func(<<>>, <<>>, CallerCode),
                      Func(<<"i32", "i32">>, <<"i64", "i32">>, PairCode) >>,
     globals |-> <<>>,
     memories |-> <<>>,
     memory_inits |-> <<>>,
     tables |-> <<>>,
     table_inits |-> <<>>,
     start_func |-> None]

Modules == {ModuleA, ModuleB, ModuleC, ModuleW, ModuleD}

BrTableData(table, default) == [table |-> table, default |-> default]

\* table(i32): three nested blocks left through a BrTable
TableCode ==
    << Instr("Block", 0), Instr("Block", 0), Instr("Block", 0),
       Instr("GetLocal", 0), Instr("BrTable", BrTableData(<<0, 1>>, 2)),
       Instr("Unreachable", 0),
       Instr("End", 0), Instr("Nop", 0),
       Instr("End", 0), Instr("Nop", 0),
       Instr("End", 0), Instr("End", 0) >>

\* countdown(i32): a loop whose body is a block that branches back to the loop
CountdownCode ==
    << Instr("Loop", 0), Instr("Block", 0),
       Instr("GetLocal", 0), Instr("I32Const", 1), Instr("I32Sub", 0),
       Instr("TeeLocal", 0), Instr("BrIf", 1),
       Instr("End", 0), Instr("End", 0), Instr("End", 0) >>

\* toofar: a branch whose target is the label of the function
TooFarCode == << Instr("Block", 0), Instr("Br", 1), Instr("End", 0), Instr("End", 0) >>

\* skip: a branch over a nested block, loop and if
SkipCode ==
    << Instr("Block", 0), Instr("Br", 0),
       Instr("Block", 0), Instr("Loop", 0), Instr("End", 0), Instr("End", 0),
       Instr("I32Const", 1), Instr("If", 0), Instr("Else", 0), Instr("End", 0),
       Instr("End", 0), Instr("End", 0) >>

\* ModuleR: the branches
ModuleR ==
    [functions |-> << Func(<<"i32">>, <<>>, TableCode), Func(<<"i32">>, <<>>, CountdownCode),
                      Func(<<>>, <<>>, TooFarCode), Func(<<>>, <<>>, SkipCode) >>,
     globals |-> <<>>,
     memories |-> <<>>,
     memory_inits |-> <<>>,
     tables |-> <<>>,
     table_inits |-> <<>>,
     start_func |-> None]

\* early: an explicit return from inside two blocks
EarlyCode ==
    << Instr("Block", 0), Instr("Block", 0), Instr("Return", 0),
       Instr("End", 0), Instr("End", 0), Instr("End", 0) >>

\* outer: calls early
OuterCode == << Instr("Call", 0), Instr("Nop", 0), Instr("End", 0) >>

\* ModuleT: the returns
ModuleT ==
    [functions |-> << Func(<<>>, <<>>, EarlyCode), Func(<<>>, <<>>, OuterCode) >>,
     globals |-> <<>>,
     memories |-> <<>>,
     memory_inits |-> <<>>,
     tables |-> <<>>,
     table_inits |-> <<>>,
     start_func |-> None]

\* dispatch(i32): an indirect call of type 0 through the selector
DispatchCode == << Instr("GetLocal", 0), Instr("CallIndirect", 0), Instr("Nop", 0), Instr("End", 0) >>

\* unit: () -> (), of type 0; other: of type 1
UnitCode == << Instr("Nop", 0), Instr("End", 0) >>

\* ModuleX: dispatch with a table of 4 whose entries are unit, other, a function
\* the module does not have, and Null
ModuleX ==
    [functions |-> << TypedFunc(2, <<"i32">>, <<>>, DispatchCode),
                      TypedFunc(0, <<>>, <<>>, UnitCode),
                      TypedFunc(1, <<>>, <<>>, UnitCode) >>,
     globals |-> <<>>,
     memories |-> <<>>,
     memory_inits |-> <<>>,
     tables |-> << [initial |-> 4] >>,
     table_inits |-> << [index |-> 0, offset |-> 0, entries |-> <<1, 2, 7>>] >>,
     start_func |-> None]

\* ModuleXN: dispatch without a table
ModuleXN == [ModuleX EXCEPT !.tables = <<>>, !.table_inits = <<>>]

\* offs(i32): a store and a load at the argument plus the offset 20
OffsCode ==
    << Instr("GetLocal", 0), Instr("I32Const", 16909060), Instr("I32Store", 20),
       Instr("GetLocal", 0), Instr("I32Load", 20), Instr("Drop", 0), Instr("End", 0) >>

\* ModuleO: offs and a memory of 36 bytes
ModuleO ==
    [functions |-> << Func(<<"i32">>, <<>>, OffsCode) >>,
     globals |-> <<>>,
     memories |-> << MemoryDecl(1, None) >>,
     memory_inits |-> << MemoryInit(0, 32, <<9, 9, 9, 9>>) >>,
     tables |-> <<>>,
     table_inits |-> <<>>,
     start_func |-> None]

\* keep(i32): every control transfer with operands on the value stack
KeepCode ==
    << Instr("I32Const", 7),
       Instr("Block", 0), Instr("I32Const", 8), Instr("GetLocal", 0),
       Instr("BrTable", BrTableData(<<0>>, 0)), Instr("End", 0),
       Instr("Block", 0), Instr("I32Const", 9), Instr("GetLocal", 0), Instr("BrIf", 0),
       Instr("Br", 0), Instr("End", 0),
       Instr("GetLocal", 0), Instr("If", 0), Instr("I32Const", 1), Instr("Else", 0),
       Instr("I32Const", 2), Instr("End", 0),
       Instr("Return", 0), Instr("End", 0) >>

\* callkeep: keep(1) from a caller
CallKeepCode == << Instr("I32Const", 1), Instr("Call", 0), Instr("Nop", 0), Instr("End", 0) >>

\* ModuleK: keep and callkeep
ModuleK ==
    [functions |-> << Func(<<"i32">>, <<>>, KeepCode), Func(<<>>, <<>>, CallKeepCode) >>,
     globals |-> <<>>,
     memories |-> <<>>,
     memory_inits |-> <<>>,
     tables |-> <<>>,
     table_inits |-> <<>>,
     start_func |-> None]

\* set: writes 1 to the global and 7 to the memory at 32; idle: writes nothing
SetCode ==
    << Instr("I32Const", 1), Instr("SetGlobal", 0),
       Instr("I32Const", 32), Instr("I32Const", 7), Instr("I32Store", 0), Instr("End", 0) >>
IdleCode == << Instr("Nop", 0), Instr("End", 0) >>

\* ModuleS: set (the start function) and idle, one global, a memory of 36 bytes
ModuleS ==
    [functions |-> << Func(<<>>, <<>>, SetCode), Func(<<>>, <<>>, IdleCode) >>,
     globals |-> << [value_type |-> "i32", mutable |-> TRUE, init |-> I32(0)] >>,
     memories |-> << MemoryDecl(1, None) >>,
     memory_inits |-> << MemoryInit(0, 32, <<9, 9, 9, 9>>) >>,
     tables |-> <<>>,
     table_inits |-> <<>>,
     start_func |-> Some(0)]

\* ifs(i32, i32): an if with an else whose arms hold an if with and an if
\* without an else, then an if without an else that holds an if with one
IfsCode ==
    << Instr("GetLocal", 0), Instr("If", 0),
           Instr("GetLocal", 1), Instr("If", 0), Instr("Nop", 0),
                                 Instr("Else", 0), Instr("Nop", 0), Instr("End", 0),
       Instr("Else", 0),
           Instr("GetLocal", 1), Instr("If", 0), Instr("Nop", 0), Instr("End", 0),
       Instr("End", 0),
       Instr("GetLocal", 0), Instr("If", 0),
           Instr("GetLocal", 1), Instr("If", 0), Instr("Nop", 0),
                                 Instr("Else", 0), Instr("Nop", 0), Instr("End", 0),
       Instr("End", 0),
       Instr("End", 0) >>

\* ModuleI: the ifs
ModuleI ==
    [functions |-> << Func(<<"i32", "i32">>, <<>>, IfsCode) >>,
     globals |-> <<>>,
     memories |-> <<>>,
     memory_inits |-> <<>>,
     tables |-> <<>>,
     table_inits |-> <<>>,
     start_func |-> None]

\* ModuleF: fact alone
ModuleF ==
    [functions |-> << Func(<<"i32">>, <<>>, FactCode) >>,
     globals |-> <<>>,
     memories |-> <<>>,
     memory_inits |-> <<>>,
     tables |-> <<>>,
     table_inits |-> <<>>,
     start_func |-> None]

\* ModuleBad: a global declared i32 whose initial value is an i64
ModuleBad ==
    [functions |-> << Func(<<>>, <<>>, << Instr("End", 0) >>) >>,
     globals |-> << [value_type |-> "i32", mutable |-> TRUE, init |-> I64(0)] >>,
     memories |-> <<>>,
     memory_inits |-> <<>>,
     tables |-> <<>>,
     table_inits |-> <<>>,
     start_func |-> Some(0)]

\* the calls the REPL issues on a module: function index and arguments
Calls(m) ==
    CASE m = ModuleA -> { <<0, <<>> >> }
      [] m = ModuleB -> { <<0, <<I32(0)>> >>, <<0, <<I32(1)>> >> }
      [] m = ModuleC -> { <<0, <<>> >> }
      [] m = ModuleW -> { <<0, <<>> >> }
      [] m = ModuleD -> { <<0, <<>> >>, <<1, <<I32(3)>> >>, <<3, <<I32(3)>> >> }
      [] m = ModuleF -> { <<0, <<I32(5)>> >> }
      [] m = ModuleR ->
            { <<0, <<I32(0)>> >>, <<0, <<I32(1)>> >>, <<0, <<I32(2)>> >>, <<0, <<I32(-1)>> >>,
              <<1, <<I32(3)>> >>, <<2, <<>> >>, <<3, <<>> >> }
      [] m = ModuleT -> { <<0, <<>> >>, <<1, <<>> >>, <<3, <<>> >> }
      [] m = ModuleX ->
            { <<0, <<I32(0)>> >>, <<0, <<I32(1)>> >>, <<0, <<I32(2)>> >>, <<0, <<I32(3)>> >>,
              <<0, <<I32(4)>> >>, <<0, <<I32(-1)>> >> }
      [] m = ModuleXN -> { <<0, <<I32(0)>> >> }
      [] m = ModuleS -> { <<0, <<>> >>, <<1, <<>> >> }
      [] m = ModuleK -> { <<0, <<I32(0)>> >>, <<0, <<I32(1)>> >>, <<1, <<>> >> }
      [] m = ModuleO ->
            { <<0, <<I32(0)>> >>, <<0, <<I32(12)>> >>, <<0, <<I32(16)>> >>,
              <<0, <<I32(-4)>> >>, <<0, <<I32(-20)>> >>, <<0, <<I32(-21)>> >> }
      [] m = ModuleI ->
            { <<0, <<I32(0), I32(0)>> >>, <<0, <<I32(0), I32(7)>> >>,
              <<0, <<I32(1), I32(0)>> >>, <<0, <<I32(-1), I32(1)>> >> }
      [] m = ModuleBad -> { <<0, <<>> >> }
      [] OTHER -> {}

\* the breakpoints and watchpoints the REPL asks for on a module
BreakpointChoices(m) ==
    CASE m = ModuleA ->
            { CodeBp(CodePosition(1, 0)), CodeBp(CodePosition(0, 2)),
              CodeBp(CodePosition(0, 6)), CodeBp(CodePosition(0, 11)),
              MemoryBp("Write", 32), GlobalBp("Read", 0) }
      [] m = ModuleB -> { CodeBp(CodePosition(0, 9)), CodeBp(CodePosition(0, 5)) }
      [] m = ModuleC -> { CodeBp(CodePosition(0, 2)), CodeBp(CodePosition(0, 7)) }
      [] m = ModuleW ->
            { MemoryBp("Read", 32), MemoryBp("Write", 32), MemoryBp("ReadWrite", 32),
              GlobalBp("Read", 0), GlobalBp("Write", 0) }
      [] m = ModuleD -> { CodeBp(CodePosition(1, 1)), CodeBp(CodePosition(0, 0)) }
      [] m = ModuleF -> { CodeBp(CodePosition(0, 0)) }
      [] m = ModuleR -> { CodeBp(CodePosition(1, 1)) }
      [] m = ModuleI -> { CodeBp(CodePosition(0, 9)) }
      [] m = ModuleT -> { CodeBp(CodePosition(0, 2)) }
      [] m = ModuleX -> { CodeBp(CodePosition(1, 0)) }
      [] m = ModuleXN -> { CodeBp(CodePosition(0, 1)) }
      [] m = ModuleK -> { CodeBp(CodePosition(0, 12)) }
      [] m = ModuleO -> { CodeBp(CodePosition(0, 3)), MemoryBp("ReadWrite", 16) }
      [] OTHER -> {}

(***************************************************************************)
(* Debugger::add_breakpoint's validation (debugger.rs)                     *)
(***************************************************************************)
\* a variant of valid_breakpoint that accepts the position one past the last
\* instruction (against which the validation of code breakpoints is tested)
valid_breakpoint_upto_end(m, bp) ==
    CASE bp.kind = "Code" ->
            /\ get_func(m, bp.pos.func_index).some
            /\ bp.pos.instr_index <= Len(get_func(m, bp.pos.func_index).val.instructions)
      [] bp.kind = "Memory" -> TRUE
      [] bp.kind = "Global" -> bp.index < Len(m.globals)

valid_breakpoint(m, bp) ==
    CASE bp.kind = "Code" ->
            /\ get_func(m, bp.pos.func_index).some
            /\ bp.pos.instr_index < Len(get_func(m, bp.pos.func_index).val.instructions)
      [] bp.kind = "Memory" -> TRUE
      [] bp.kind = "Global" -> bp.index < Len(m.globals)

(***************************************************************************)
(* The state machine.                                                      *)
(***************************************************************************)
\* the driver loop in progress: its kind, the depth it recorded on entry and,
\* for step-over, the position it was entered at
Idle == [mode |-> "idle", depth |-> 0, entry |-> NoPosition]

LastCall(name, ret, fetched, from, prev) ==
    [call |-> name, ret |-> ret, fetched |-> fetched, from |-> from, prev |-> prev,
     dirty |-> FALSE]

NoRun == [func |-> -1, fresh |-> FALSE, started |-> FALSE]

\* the record of the last direct Memory call: none yet
NoMemOp ==
    [n |-> 0, op |-> "new", delta |-> 0, before |-> Memory_new(MemoryDecl(0, None)),
     ret |-> 0, panic |-> FALSE]

InitCommon ==
    /\ breakpoints = Breakpoints_new
    /\ driver = Idle
    /\ last = LastCall("new", NoTrap, NoPosition, NoPosition, "none")
    /\ tick = FALSE
    /\ returned = <<>>
    /\ run = NoRun
    /\ mlog = NoMemOp
    /\ halted = "no"

Init ==
    /\ module \in Modules
    /\ vm = VM_new(module)
    /\ InitCommon

Ready == halted = "no" /\ driver.mode = "idle"

\* Debugger::add_breakpoint
AddBreakpoint(bp) ==
    /\ Ready
    /\ breakpoints.next_index < MaxAdds
    /\ valid_breakpoint(module, bp)
    /\ breakpoints' = add_breakpoint(breakpoints, bp)
    /\ returned' = Append(returned, add_breakpoint_index(breakpoints))
    /\ last' = [last EXCEPT !.dirty = TRUE]
    /\ UNCHANGED <<module, vm, driver, tick, run, mlog, halted>>

\* Debugger::delete_breakpoint
DeleteBreakpoint(index) ==
    /\ Ready
    /\ breakpoints' = delete_breakpoint(breakpoints, index)
    /\ last' = [last EXCEPT !.dirty = TRUE]
    /\ UNCHANGED <<module, vm, driver, tick, returned, run, mlog, halted>>

\* Debugger::clear_breakpoints
ClearBreakpoints ==
    /\ Ready
    /\ breakpoints' = clear(breakpoints)
    /\ last' = [last EXCEPT !.dirty = TRUE]
    /\ UNCHANGED <<module, vm, driver, tick, returned, run, mlog, halted>>

\* how a call that ended `end` leaves the process
HaltedBy(end) == IF end \in {"panic", "hang"} THEN end ELSE "no"

\* VM::run_func, up to the entry of its continue_execution loop
RunFunc(index, args) ==
    /\ Ready
    /\ LET o == run_func_paused(module, vm, index, args)
       IN  /\ vm' = o.vm
           /\ run' = [func |-> index, fresh |-> vm.memories = Memory_from_module(module),
                       started |-> o.end = "ok"]
           /\ IF o.end = "err"
              THEN /\ last' = LastCall("run_func", o.trap, NoPosition, vm.ip, last.ret.trap)
                   /\ driver' = Idle
              ELSE \E r \in find_code(breakpoints, o.vm.ip) :
                     IF r.some
                     THEN /\ last' = LastCall("run_func", BreakpointReached(r.val),
                                              NoPosition, vm.ip, last.ret.trap)
                          /\ driver' = Idle
                     ELSE /\ last' = LastCall("run_func", NoTrap, NoPosition, vm.ip,
                                              last.ret.trap)
                          /\ driver' = [mode |-> "continue", depth |-> 0, entry |-> NoPosition]
    /\ UNCHANGED <<module, breakpoints, tick, returned, mlog, halted>>

\* VM::start
Start ==
    /\ Ready
    /\ IF module.start_func.some
       THEN LET o == run_func_paused(module, vm, module.start_func.val, <<>>)
            IN  /\ vm' = o.vm
                /\ run' = [func |-> module.start_func.val,
                           fresh |-> vm.memories = Memory_from_module(module),
                           started |-> o.end = "ok"]
                /\ last' = LastCall("start", o.trap, NoPosition, vm.ip, last.ret.trap)
       ELSE /\ vm' = vm
            /\ run' = run
            /\ last' = LastCall("start", Trap("NoStartFunction", 0), NoPosition, vm.ip,
                                last.ret.trap)
    /\ UNCHANGED <<module, breakpoints, driver, tick, returned, mlog, halted>>

\* one call of execute_step, by the REPL or by a driver loop: r is its outcome
StepWith(r) ==
    /\ vm' = r.out.vm
    /\ last' = LastCall("execute_step", r.out.trap, r.fetched, vm.ip, last.ret.trap)
    /\ tick' = ~tick
    /\ halted' = HaltedBy(r.out.end)
    /\ UNCHANGED <<module, breakpoints, returned, run, mlog>>

\* a variant of ends_loop that lets a driver go on after a pause (against which
\* the propagation of breakpoints and watchpoints is tested)
ends_loop_unless_pause(o) == o.end # "ok" /\ is_sticky(o.trap)

\* the `?` and `if let Err` of the driver loops: any Err of execute_step ends them
ends_loop(o) == o.end # "ok"

\* VM::execute_step, called by the REPL's step command
ExecuteStep ==
    /\ Ready
    /\ \E r \in execute_step(module, breakpoints, vm) :
         /\ StepWith(r)
         /\ driver' = Idle

\* VM::continue_execution: one iteration of its loop
ContinueExecution ==
    /\ halted = "no"
    /\ driver.mode \in {"idle", "continue"}
    /\ \E r \in execute_step(module, breakpoints, vm) :
         /\ StepWith(r)
         /\ driver' = IF ~ends_loop(r.out) THEN [mode |-> "continue", depth |-> 0, entry |-> NoPosition] ELSE Idle

\* a variant of step_over_returns that waits for a depth below the recorded one
\* (against which the return of step-over is tested)
step_over_returns_below(curr_frame_index, v) ==
    curr_frame_index > Len(v.function_stack)

\* the test that ends the loop of execute_step_over
step_over_returns(curr_frame_index, v) ==
    curr_frame_index >= Len(v.function_stack)

\* VM::execute_step_over: one iteration of its loop
ExecuteStepOver ==
    /\ halted = "no"
    /\ driver.mode \in {"idle", "step_over"}
    /\ LET curr_frame_index ==
            IF driver.mode = "idle" THEN Len(vm.function_stack) ELSE driver.depth
       IN  \E r \in execute_step(module, breakpoints, vm) :
             /\ StepWith(r)
             /\ driver' = IF ~ends_loop(r.out)
                             /\ ~step_over_returns(curr_frame_index, r.out.vm)
                          THEN [mode |-> "step_over", depth |-> curr_frame_index,
                                entry |-> IF driver.mode = "idle" THEN vm.ip
                                          ELSE driver.entry]
                          ELSE Idle

\* VM::execute_step_out: one iteration of its loop. With curr_frame_index = 0 the
\* test curr_frame_index - 1 underflows: a panic, or a value no length equals.
ExecuteStepOut ==
    /\ halted = "no"
    /\ driver.mode \in {"idle", "step_out"}
    /\ LET curr_frame_index ==
            IF driver.mode = "idle" THEN Len(vm.function_stack) ELSE driver.depth
       IN  \E r \in execute_step(module, breakpoints, vm) :
             \E underflow \in IF r.out.end = "ok" /\ curr_frame_index = 0
                              THEN {"panic", "wrap"} ELSE {"none"} :
               /\ vm' = r.out.vm
               /\ last' = LastCall("execute_step", r.out.trap, r.fetched, vm.ip,
                                   last.ret.trap)
               /\ tick' = ~tick
               /\ halted' = IF underflow = "panic" THEN "panic" ELSE HaltedBy(r.out.end)
               /\ driver' = IF ~ends_loop(r.out)
                               /\ ~(curr_frame_index - 1 = Len(r.out.vm.function_stack))
                            THEN [mode |-> "step_out", depth |-> curr_frame_index, entry |-> NoPosition]
                            ELSE Idle
               /\ UNCHANGED <<module, breakpoints, returned, run, mlog>>

Next ==
    \/ \E bp \in BreakpointChoices(module) : AddBreakpoint(bp)
    \/ \E index \in 0..(MaxAdds - 1) : DeleteBreakpoint(index)
    \/ ClearBreakpoints
    \/ \E c \in Calls(module) : RunFunc(c[1], c[2])
    \/ Start
    \/ ExecuteStep
    \/ ContinueExecution
    \/ ExecuteStepOver
    \/ ExecuteStepOut

Spec == Init /\ [][Next]_vars

(***************************************************************************)
(* The factorial module under the same commands: call 0 5, with or without *)
(* a breakpoint at the entry of fact.                                      *)
(***************************************************************************)
InitFact ==
    /\ module = ModuleF
    /\ vm = VM_new(module)
    /\ InitCommon

SpecFact == InitFact /\ [][Next]_vars

(***************************************************************************)
(* The modules of branches and ifs under the same commands.                *)
(***************************************************************************)
InitFlow ==
    /\ module \in {ModuleR, ModuleI}
    /\ vm = VM_new(module)
    /\ InitCommon

SpecFlow == InitFlow /\ [][Next]_vars

(***************************************************************************)
(* The module of returns under the same commands.                          *)
(***************************************************************************)
InitRet ==
    /\ module = ModuleT
    /\ vm = VM_new(module)
    /\ InitCommon

SpecRet == InitRet /\ [][Next]_vars

(***************************************************************************)
(* The integer comparisons alone: each applied by binop to two operands    *)
(* pushed on an empty value stack.                                         *)
(***************************************************************************)
I32RelOps == {"I32LtS", "I32LtU", "I32GtS", "I32GtU"}

\* 0, 1, 0xFFFFFFFF, 0x7FFFFFFF and 0x80000000
Operands32 == {0, 1, -1, 2147483647, -2147483647 - 1}

\* 0, 1, 2^32, 2^64 - 1, 2^63
Operands64 == { <<0, 0>>, <<0, 1>>, <<1, 0>>, <<-1, -1>>, <<-2147483647 - 1, 0>> }

InitCompare ==
    /\ module = ModuleF
    /\ vm = VM_new(module)
    /\ InitCommon

\* the instruction op executed with a pushed first and b second
Compared(op, a, b, o) ==
    /\ vm' = o.vm
    /\ mlog' = [n |-> 0, op |-> op, a |-> <<a>>, b |-> <<b>>, end |-> o.end,
                result |-> Last(o.vm.value_stack)]
    /\ UNCHANGED <<module, breakpoints, driver, last, tick, returned, run, halted>>

Compare32(op, a, b) ==
    Compared(op, a, b, binop([vm EXCEPT !.value_stack = << I32(a), I32(b) >>], op))

Compare64(op, a, b) ==
    Compared(op, a, b, binop64([vm EXCEPT !.value_stack = << I64(a), I64(b) >>], op))

NextCompare ==
    \/ \E op \in I32RelOps, a \in Operands32, b \in Operands32 : Compare32(op, a, b)
    \/ \E op \in I64RelOps, a \in Operands64, b \in Operands64 : Compare64(op, a, b)

SpecCompare == InitCompare /\ [][NextCompare]_vars

(***************************************************************************)
(* The modules of indirect calls under the same commands.                  *)
(***************************************************************************)
InitIndirect ==
    /\ module \in {ModuleX, ModuleXN}
    /\ vm = VM_new(module)
    /\ InitCommon

SpecIndirect == InitIndirect /\ [][Next]_vars

(***************************************************************************)
(* Accesses at a base plus an offset, under the same commands.             *)
(***************************************************************************)
InitOffs ==
    /\ module = ModuleO
    /\ vm = VM_new(module)
    /\ InitCommon

SpecOffs == InitOffs /\ [][Next]_vars

(***************************************************************************)
(* Control transfers over operands, under the same commands.               *)
(***************************************************************************)
InitKeep ==
    /\ module = ModuleK
    /\ vm = VM_new(module)
    /\ InitCommon

SpecKeep == InitKeep /\ [][Next]_vars

(***************************************************************************)
(* Tables alone: built by Table::from_module from a table declaration and  *)
(* up to two element segments, then read through Table::get.              *)
(***************************************************************************)
TableDecl(initial) == [initial |-> initial]
TableInit(index, offset, entries) == [index |-> index, offset |-> offset, entries |-> entries]

TableModule(initial, inits) ==
    [functions |-> <<>>, globals |-> <<>>, memories |-> <<>>, memory_inits |-> <<>>,
     tables |-> << TableDecl(initial) >>, table_inits |-> inits,
     start_func |-> None]

\* segments inside a table of 4, overlapping ones, and ones that start at or
\* past the end of a shorter table
ElementSegments ==
    { TableInit(0, 0, <<1, 2>>), TableInit(0, 1, <<3>>),
      TableInit(0, 2, <<4, 5>>), TableInit(0, 5, <<6>>) }

TableModules ==
    { TableModule(initial, inits) :
        initial \in {0, 2, 4},
        inits \in {<<>>} \cup {<<a>> : a \in ElementSegments}
                  \cup {<<a, b>> : a \in ElementSegments, b \in ElementSegments} }

TableIndices == {0, 1, 2, 3, 4, 5, 6, -1}

InitTable ==
    /\ module \in TableModules
    /\ vm = VM_new(module)
    /\ InitCommon

\* Table::get on table 0 of the VM
TableGet(index) ==
    /\ mlog' = [n |-> 0, op |-> "get", index |-> index,
                result |-> Table_get(Table_from_module(module)[1], index)]
    /\ UNCHANGED <<module, vm, breakpoints, driver, last, tick, returned, run, halted>>

NextTable == \E index \in TableIndices : TableGet(index)

SpecTable == InitTable /\ [][NextTable]_vars

(***************************************************************************)
(* The registry alone: Breakpoints::add_breakpoint, delete_breakpoint and  *)
(* clear called directly, in any order, with any breakpoint.               *)
(***************************************************************************)
BpInputs ==
    { CodeBp(CodePosition(0, 2)), CodeBp(CodePosition(1, 0)),
      MemoryBp("Read", 32), MemoryBp("Write", 32), MemoryBp("ReadWrite", 32),
      GlobalBp("ReadWrite", 0) }

InitBp ==
    /\ module = ModuleA
    /\ vm = VM_new(module)
    /\ InitCommon

\* the registry call just made, and the one before it
RegistryCall(name) == [last EXCEPT !.call = name, !.prev = last.call]

\* Breakpoints::add_breakpoint
BpAdd(bp) ==
    /\ breakpoints.next_index < MaxRegistryAdds
    /\ breakpoints' = add_breakpoint(breakpoints, bp)
    /\ returned' = Append(returned, add_breakpoint_index(breakpoints))
    /\ last' = RegistryCall("add_breakpoint")
    /\ UNCHANGED <<module, vm, driver, tick, run, mlog, halted>>

\* Breakpoints::delete_breakpoint
BpDelete(index) ==
    /\ breakpoints' = delete_breakpoint(breakpoints, index)
    /\ last' = RegistryCall("delete_breakpoint")
    /\ UNCHANGED <<module, vm, driver, tick, returned, run, mlog, halted>>

\* Breakpoints::clear
BpClear ==
    /\ breakpoints' = clear(breakpoints)
    /\ last' = RegistryCall("clear")
    /\ UNCHANGED <<module, vm, driver, tick, returned, run, mlog, halted>>

NextBp ==
    \/ \E bp \in BpInputs : BpAdd(bp)
    \/ \E index \in 0..(MaxRegistryAdds - 1) : BpDelete(index)
    \/ BpClear

SpecBp == InitBp /\ [][NextBp]_vars

(***************************************************************************)
(* A memory alone: built by Memory::from_module from a module's memory     *)
(* declaration and data segments, then grown and written through           *)
(* Memory::grow and Memory::store.                                         *)
(***************************************************************************)
MemModule(initial, maximum, inits) ==
    [functions |-> <<>>, globals |-> <<>>,
     memories |-> << MemoryDecl(initial, maximum) >>,
     memory_inits |-> inits, tables |-> <<>>, table_inits |-> <<>>,
     start_func |-> None]

MemModules ==
    { MemModule(1, Some(2), <<>>),
      MemModule(1, Some(2), << MemoryInit(0, 32, <<9, 9, 9, 9>>) >>),
      MemModule(0, None, <<>>),
      MemModule(0, Some(MEMORY_MAX_PAGES), <<>>),
      MemModule(PAGE_SIZE, None, <<>>) }

\* the deltas handed to grow: -1 is the word 0xFFFFFFFF
MemDeltas == {0, 1, 2, PAGE_SIZE - 1, PAGE_SIZE, -1}

\* the addresses written: the second one needs two pages
MemAddresses == {0, PAGE_SIZE - 2}

InitMem ==
    /\ module \in MemModules
    /\ vm = VM_new(module)
    /\ InitCommon

\* Memory::grow; an overflow panic ends the process
MemGrow(delta) ==
    /\ halted = "no"
    /\ mlog.n < MaxMemOps
    /\ \E g \in grow(vm.memories[1], delta) :
         /\ vm' = [vm EXCEPT !.memories[1] = g.mem]
         /\ mlog' = [n |-> mlog.n + 1, op |-> "grow", delta |-> delta,
                     before |-> vm.memories[1], ret |-> g.ret, panic |-> g.panic]
         /\ halted' = IF g.panic THEN "panic" ELSE "no"
    /\ UNCHANGED <<module, breakpoints, driver, last, tick, returned, run>>

\* Memory::store::<u32>
MemStore(address, value) ==
    /\ halted = "no"
    /\ mlog.n < MaxMemOps
    /\ LET st == store32(vm.memories[1], address, value)
       IN  /\ vm' = IF st.ok THEN [vm EXCEPT !.memories[1] = st.mem] ELSE vm
           /\ mlog' = [n |-> mlog.n + 1, op |-> "store", delta |-> address,
                       before |-> vm.memories[1], ret |-> IF st.ok THEN 0 ELSE -1,
                       panic |-> FALSE]
    /\ UNCHANGED <<module, breakpoints, driver, last, tick, returned, run, halted>>

NextMem ==
    \/ \E delta \in MemDeltas : MemGrow(delta)
    \/ \E address \in MemAddresses : MemStore(address, 16909060)

SpecMem == InitMem /\ [][NextMem]_vars

(***************************************************************************)
(* Memory::load and Memory::store of every width, applied to memories of   *)
(* 0, 36 and 65536 bytes at addresses around both ends of the address      *)
(* space.                                                                   *)
(***************************************************************************)
\* the accesses followed from a fresh memory
MaxAccesses == 2

AccessModules ==
    { MemModule(0, None, <<>>),
      MemModule(1, Some(2), << MemoryInit(0, 32, <<9, 9, 9, 9>>) >>),
      MemModule(PAGE_SIZE, None, <<>>) }

\* -1, -3 and -8 are the words 0xFFFFFFFF, 0xFFFFFFFD and 0xFFFFFFF8
AccessAddresses == {0, 30, PAGE_SIZE - 8, PAGE_SIZE - 3, PAGE_SIZE, -8, -3, -1}

AccessSizes == {1, 2, 4, 8}

\* the values stored, by size
AccessValues(size) ==
    CASE size = 1 -> {128}
      [] size = 2 -> {258}
      [] size = 4 -> {16909060, -2}
      [] size = 8 -> { <<16909060, 84281096>>, <<-1, 0>> }

InitAccess ==
    /\ module \in AccessModules
    /\ vm = VM_new(module)
    /\ InitCommon

Accessed(op, address, size, value, before, result) ==
    /\ mlog' = [n |-> mlog.n + 1, op |-> op, address |-> address, size |-> size,
                value |-> <<value>>, before |-> before, result |-> result]
    /\ UNCHANGED <<module, breakpoints, driver, last, tick, returned, run, halted>>

\* Memory::load::<T>
AccessLoad(address, size) ==
    /\ mlog.n < MaxAccesses
    /\ vm' = vm
    /\ Accessed("load", address, size, 0, vm.memories[1],
                Memory_load(vm.memories[1], address, size))

\* Memory::store::<T>
AccessStore(address, size, value) ==
    /\ mlog.n < MaxAccesses
    /\ LET st == Memory_store(vm.memories[1], address, size, value)
       IN  /\ vm' = IF st.ok THEN [vm EXCEPT !.memories[1] = st.mem] ELSE vm
           /\ Accessed("store", address, size, value, vm.memories[1],
                       IF st.ok THEN [ok |-> TRUE] ELSE st)

NextAccess ==
    \/ \E address \in AccessAddresses, size \in AccessSizes : AccessLoad(address, size)
    \/ \E address \in AccessAddresses, size \in AccessSizes :
          \E value \in AccessValues(size) : AccessStore(address, size, value)

SpecAccess == InitAccess /\ [][NextAccess]_vars

(***************************************************************************)
(* The commands `set memory` (cmds/modify.rs) and `x` (cmds/printing.rs)   *)
(* on memories of 36 and 65536 bytes.                                      *)
(***************************************************************************)
\* the commands followed from a fresh memory
MaxExamines == 2

\* Format::Hex of an integer of `size` bytes: its 2 * size hex digits, the most
\* significant first
RECURSIVE HexDigits(_, _)
HexDigits(n, digits) ==
    IF digits = 0 THEN <<>> ELSE Append(HexDigits(n \div 16, digits - 1), n % 16)

format_hex(val, size) ==
    CASE size = 1 -> HexDigits(val, 2)
      [] size = 2 -> HexDigits(val, 4)
      [] size = 4 -> HexDigits(Hi(val), 4) \o HexDigits(Lo(val), 4)
      [] size = 8 -> HexDigits(Hi(val[1]), 4) \o HexDigits(Lo(val[1]), 4)
                     \o HexDigits(Hi(val[2]), 4) \o HexDigits(Lo(val[2]), 4)

\* the loop of cmd_x for a format other than Str, from its k-th round on: the
\* lines printed and whether a load failed
RECURSIVE cmd_x_loop(_, _, _, _, _)
cmd_x_loop(mem, addr, count, size, k) ==
    IF k >= count THEN [lines |-> <<>>, ok |-> TRUE]
    ELSE LET ld == Memory_load(mem, addr, size)
         IN  IF ~ld.ok THEN [lines |-> <<>>, ok |-> FALSE]
             ELSE LET rest == cmd_x_loop(mem, addr + count * size, count, size, k + 1)
                  IN  [lines |-> << [addr |-> addr, val |-> format_hex(ld.val, size)] >>
                                     \o rest.lines,
                       ok |-> rest.ok]

\* cmd_x with the format /<count><size>x
cmd_x(mem, count, size, address) == cmd_x_loop(mem, address, count, size, 0)

\* the value cmd_set_memory stores for a type: the number cut to its width
set_memory_value(val, size) ==
    CASE size = 1 -> Lo(val) % 256
      [] size = 2 -> Lo(val)
      [] size = 4 -> val

\* cmd_set_memory for the types i8, i16 and i32
cmd_set_memory(mem, addr, val, size) == Memory_store(mem, addr, size, set_memory_value(val, size))

ExamineModules ==
    { MemModule(1, Some(2), << MemoryInit(0, 32, <<9, 9, 9, 9>>) >>),
      MemModule(PAGE_SIZE, None, <<>>) }

\* 0x10, and addresses near the end of the memory of 36 bytes
ExamineAddresses == {16, 24, 32}
ExamineCounts == {1, 2, 4}
ExamineSizes == {1, 2, 4, 8}

\* 0x41424344 and 0x8001
SetMemoryValues == {1094861636, 32769}

InitExamine ==
    /\ module \in ExamineModules
    /\ vm = VM_new(module)
    /\ InitCommon

Examined(op, address, count, size, before, lines, ok) ==
    /\ mlog' = [n |-> mlog.n + 1, op |-> op, address |-> address, count |-> count,
                size |-> size, before |-> before, lines |-> lines, ok |-> ok]
    /\ UNCHANGED <<module, breakpoints, driver, last, tick, returned, run, halted>>

\* set memory <addr> = <val> <type>
SetMemory(addr, val, size) ==
    /\ mlog.n < MaxExamines
    /\ LET st == cmd_set_memory(vm.memories[1], addr, val, size)
       IN  /\ vm' = IF st.ok THEN [vm EXCEPT !.memories[1] = st.mem] ELSE vm
           /\ Examined("set", addr, 1, size, vm.memories[1], <<>>, st.ok)

\* x /<count><size>x <address>
Examine(count, size, address) ==
    /\ mlog.n < MaxExamines
    /\ vm' = vm
    /\ LET x == cmd_x(vm.memories[1], count, size, address)
       IN  Examined("x", address, count, size, vm.memories[1], x.lines, x.ok)

NextExamine ==
    \/ \E addr \in ExamineAddresses, val \in SetMemoryValues, size \in {1, 2, 4} :
          SetMemory(addr, val, size)
    \/ \E count \in ExamineCounts, size \in ExamineSizes, address \in ExamineAddresses :
          Examine(count, size, address)

SpecExamine == InitExamine /\ [][NextExamine]_vars

(***************************************************************************)
(* Properties.                                                             *)
(***************************************************************************)
IsPause(trap) == trap.trap \in {"BreakpointReached", "WatchpointReached"}

\* C1: sticky traps. Once execute_step has returned a trap other than
\* BreakpointReached or WatchpointReached, the VM holds it; while the VM holds a
\* trap every execute_step returns that trap and leaves the whole VM (ip, value
\* stack, label stack, function stack, globals, memory) as it was; and only
\* run_func or start change a VM that holds a trap.
C1_StickyTraps ==
    [][ /\ (tick' # tick /\ halted' = "no" /\ last'.ret # NoTrap /\ ~IsPause(last'.ret))
              => vm'.trap = last'.ret
        /\ (tick' # tick /\ vm.trap # NoTrap)
              => (vm' = vm /\ last'.ret = vm.trap /\ last'.fetched = NoPosition)
        /\ (vm.trap # NoTrap /\ vm' # vm) => last'.call \in {"run_func", "start"}
      ]_vars

\* an execute_step in a started run that returned, once more, the sticky trap
\* the call before it had returned, and fetched nothing
C1_Witness ==
    /\ last.call = "execute_step"
    /\ last.ret # NoTrap /\ ~IsPause(last.ret)
    /\ last.prev = last.ret.trap
    /\ last.fetched = NoPosition
    /\ vm.trap = last.ret
    /\ vm.function_stack # <<>>

\* the code positions at which the registry holds a code breakpoint that
\* find_code reports
ReportedAt(pos) == None \notin find_code(breakpoints, pos)

\* C2: breakpoint observability. When run_func or execute_step (called by the
\* REPL or by continue_execution, execute_step_over, execute_step_out) has moved
\* ip to a position P that carries a code breakpoint, and execution has neither
\* finished nor trapped, that call returns BreakpointReached with the index of
\* a breakpoint at P, whichever instruction moved ip there.
C2_BreakpointObserved ==
    ( /\ halted = "no"
      /\ last.call \in {"run_func", "execute_step"}
      /\ ~last.dirty
      /\ vm.trap = NoTrap
      /\ vm.label_stack # <<>>
      /\ ReportedAt(vm.ip) )
    => ( /\ last.ret.trap = "BreakpointReached"
         /\ Some(last.ret.arg) \in find_code(breakpoints, vm.ip) )

\* C3: BreakpointReached and WatchpointReached are not sticky. An execute_step
\* that returns one of them leaves the VM's stored trap unset, and the
\* execute_step that follows a pause fetches and executes the instruction at
\* the current ip.
C3_PausesAreNotSticky ==
    [][ tick' # tick =>
          /\ IsPause(last'.ret) => vm'.trap = NoTrap
          /\ IsPause(last.ret) => (last'.fetched = vm.ip /\ last'.fetched # NoPosition)
      ]_vars

\* continue_execution resumed from a code breakpoint at P: its first
\* execute_step fetched P and the loop goes on
C3_Witness ==
    /\ driver.mode = "continue"
    /\ last.call = "execute_step"
    /\ last.prev = "BreakpointReached"
    /\ ~last.dirty
    /\ last.fetched = last.from
    /\ ReportedAt(last.fetched)
    /\ vm.trap = NoTrap

ReturnLabels(labels) == Cardinality({i \in DOMAIN labels : labels[i].kind = "Return"})

\* C4: in every reachable VM state (running, paused, finished or trapped) the
\* function stack holds as many frames as the label stack holds Return labels.
C4_FramesMatchReturnLabels ==
    halted = "no" => Len(vm.function_stack) = ReturnLabels(vm.label_stack)

\* C5: every memory built from a module and then grown and written has a
\* buffer of page_count() * PAGE_SIZE bytes.
C5_LengthIsWholePages ==
    \A i \in DOMAIN vm.memories :
        /\ vm.memories[i].rem = 0
        /\ vm.memories[i].pages = page_count(vm.memories[i])

\* C6: right after construction a memory declared with initial = n reports n
\* pages; grow2 (memory.grow 1 twice) on the fresh memory declared initial = 1,
\* maximum = 2 leaves 1 and -1 on the stack and the memory at two pages.
C6_InitialPagesThenGrowTwice ==
    /\ last.call = "new" =>
          \A i \in DOMAIN vm.memories :
              page_count(vm.memories[i]) = module.memories[i].initial
    /\ (module = ModuleC /\ run.fresh /\ halted = "no"
            /\ vm.trap = Trap("ExecutionFinished", 0))
          => /\ vm.value_stack = <<I32(1), I32(-1)>>
             /\ page_count(vm.memories[1]) = 2

\* C7: grow is all or nothing. A grow(delta) that returns something else than
\* -1 returns the previous page count, keeps every byte and appends exactly
\* delta * PAGE_SIZE zero bytes; one that returns -1 leaves the memory as it was.
C7_GrowAllOrNothing ==
    (mlog.op = "grow" /\ ~mlog.panic) =>
        LET before == mlog.before
            after == vm.memories[1]
        IN  IF mlog.ret = -1 THEN after = before
            ELSE /\ mlog.ret = page_count(before)
                 /\ Hi(mlog.delta) = 0
                 /\ after.pages = before.pages + Lo(mlog.delta)
                 /\ after.rem = before.rem
                 /\ after.data = before.data

\* page_count + delta, as a mathematical sum, exceeds limit
SumExceeds(pc, delta, limit) ==
    AddOverflows(pc, delta) \/ ULess(limit, WrappingAdd(pc, delta))

\* C8: grow(delta) returns -1 exactly when page_count + delta, as a
\* mathematical sum, exceeds the declared maximum or MEMORY_MAX_PAGES, and the
\* memory never gets shorter.
C8_GrowFailsExactlyBeyondLimits ==
    (mlog.op = "grow" /\ ~mlog.panic) =>
        LET before == mlog.before
            after == vm.memories[1]
            pc == page_count(before)
            must_fail ==
                \/ before.limits.maximum.some
                     /\ SumExceeds(pc, mlog.delta, before.limits.maximum.val)
                \/ SumExceeds(pc, mlog.delta, MEMORY_MAX_PAGES)
        IN  /\ (mlog.ret = -1) <=> must_fail
            /\ LenLE(MemLen(before), MemLen(after))

\* C9: indices are never reused. The indices add_breakpoint has returned, in
\* call order, are strictly increasing; after N adds (and any deletes and
\* clears) the next fresh index is the original one, 0, plus N.
C9_IndicesNeverReused ==
    /\ \A i \in 1..(Len(returned) - 1) : returned[i] < returned[i + 1]
    /\ next_fresh_index(breakpoints) = Len(returned)
    /\ \A i \in DOMAIN returned : returned[i] < next_fresh_index(breakpoints)
    /\ DOMAIN breakpoints.index_map \subseteq {returned[i] : i \in DOMAIN returned}

\* an add made right after a delete or a clear had emptied the registry: it got
\* a new index, not a freed one
C9_Witness ==
    /\ last.call = "add_breakpoint"
    /\ last.prev \in {"delete_breakpoint", "clear"}
    /\ Len(returned) >= 2
    /\ DOMAIN breakpoints.index_map = {returned[Len(returned)]}
    /\ returned[Len(returned)] = Len(returned) - 1

\* the breakpoints the index map holds
Held == {breakpoints.index_map[i] : i \in DOMAIN breakpoints.index_map}

\* C10: registry consistency. Each fast-lookup set holds a location exactly
\* when the index map holds a breakpoint on that location with a trigger of
\* that set; find_code(pos) returns Some(i) exactly when a Code(pos) breakpoint
\* remains, and then i is the index of one.
C10_RegistryConsistent ==
    /\ \A bp \in BpInputs :
          /\ bp.kind = "Code" =>
                /\ (bp.pos \in breakpoints.code) <=> (bp \in Held)
                /\ \A r \in find_code(breakpoints, bp.pos) :
                      /\ r.some <=> (bp \in Held)
                      /\ r.some => breakpoints.index_map[r.val] = bp
          /\ bp.kind = "Memory" =>
                /\ (bp.addr \in breakpoints.memory_read) <=>
                      (\E h \in Held : h.kind = "Memory" /\ h.addr = bp.addr
                                          /\ is_read(h.trigger))
                /\ (bp.addr \in breakpoints.memory_write) <=>
                      (\E h \in Held : h.kind = "Memory" /\ h.addr = bp.addr
                                          /\ is_write(h.trigger))
          /\ bp.kind = "Global" =>
                /\ (bp.index \in breakpoints.global_read) <=>
                      (\E h \in Held : h.kind = "Global" /\ h.index = bp.index
                                          /\ is_read(h.trigger))
                /\ (bp.index \in breakpoints.global_write) <=>
                      (\E h \in Held : h.kind = "Global" /\ h.index = bp.index
                                          /\ is_write(h.trigger))
    /\ breakpoints.code \subseteq {bp.pos : bp \in {h \in Held : h.kind = "Code"}}

\* the instruction at a position of the module
InstrAt(m, pos) == get_func(m, pos.func_index).val.instructions[pos.instr_index + 1]

\* the memory or global access the instruction at pos makes, its address being
\* the constant pushed `back` instructions earlier plus the offset immediate
AccessAt(m, pos) ==
    LET instr == InstrAt(m, pos)
        base(back) == InstrAt(m, [pos EXCEPT !.instr_index = @ - back]).arg
    IN  CASE instr.op = "I32Load" ->
                [kind |-> "Memory", write |-> FALSE,
                 target |-> WrappingAdd(base(1), instr.arg)]
          [] instr.op = "I32Store" ->
                [kind |-> "Memory", write |-> TRUE,
                 target |-> WrappingAdd(base(2), instr.arg)]
          [] instr.op = "GetGlobal" -> [kind |-> "Global", write |-> FALSE, target |-> instr.arg]
          [] instr.op = "SetGlobal" -> [kind |-> "Global", write |-> TRUE, target |-> instr.arg]
          [] OTHER -> [kind |-> "none", write |-> FALSE, target |-> 0]

\* a registered breakpoint watches the access: same kind, a trigger that
\* includes the access kind, and its address within the 4 bytes accessed (resp.
\* its global index the one accessed)
Watches(bp, access) ==
    /\ bp.kind = access.kind
    /\ IF access.write THEN is_write(bp.trigger) ELSE is_read(bp.trigger)
    /\ IF bp.kind = "Memory"
       THEN /\ ~ULess(bp.addr, access.target)
            /\ AddOverflows(access.target, 4) \/ ULess(bp.addr, WrappingAdd(access.target, 4))
       ELSE bp.index = access.target

\* the last call was an execute_step that performed a memory or global access,
\* under the registry as it is now
AccessStepped ==
    /\ halted = "no"
    /\ last.call = "execute_step"
    /\ ~last.dirty
    /\ last.fetched # NoPosition
    /\ AccessAt(module, last.fetched).kind # "none"
    /\ last.ret.trap \in {"none", "WatchpointReached", "BreakpointReached"}

\* C11: watch triggers. An access returns WatchpointReached exactly when a
\* registered watch with a trigger for that access kind targets the bytes (the
\* global) accessed, and the index returned is that of such a watch.
C11_WatchTriggers ==
    AccessStepped =>
        LET access == AccessAt(module, last.fetched)
        IN  /\ (last.ret.trap = "WatchpointReached") <=>
                   (\E h \in Held : Watches(h, access))
            /\ (last.ret.trap = "WatchpointReached") =>
                   /\ last.ret.arg \in DOMAIN breakpoints.index_map
                   /\ Watches(breakpoints.index_map[last.ret.arg], access)

\* the position after pos in the same function
Following(pos) == [pos EXCEPT !.instr_index = @ + 1]

\* the four bytes of a memory from an address on
BytesAt(mem, address) == [k \in 1..4 |-> ByteAt(mem, WrappingAdd(address, k - 1))]

\* C12: a watchpoint is reported after the instruction's effect. A step that
\* returns WatchpointReached leaves the VM exactly as the same step would
\* without any watch (operands popped, effect done, ip on the following
\* instruction); after a store the written bytes are in memory; and the step
\* after it fetches that following instruction, not the access again.
C12_WatchAfterEffect ==
    [][ tick' # tick =>
          /\ (last'.ret.trap = "WatchpointReached" /\ halted' = "no") =>
                /\ \E r \in execute_step(module, Breakpoints_new, vm) :
                      r.out.end = "ok" /\ r.out.vm = vm'
                /\ vm'.ip = Following(last'.fetched)
                /\ InstrAt(module, last'.fetched).op = "I32Store" =>
                      /\ Len(vm.value_stack) >= 2
                      /\ vm'.value_stack = SubSeq(vm.value_stack, 1, Len(vm.value_stack) - 2)
                      /\ BytesAt(vm'.memories[1], AccessAt(module, last'.fetched).target)
                            = to_little_endian32(Last(vm.value_stack).v)
          /\ last.ret.trap = "WatchpointReached" =>
                (last'.fetched = vm.ip /\ vm.ip = Following(last.fetched))
      ]_vars

\* i32.store of 7 at 32 paused on a write watch: 07 00 00 00 is in memory, the
\* operands are gone and ip is on the instruction after the store
C12_Witness ==
    /\ module = ModuleW
    /\ last.call = "execute_step"
    /\ last.ret.trap = "WatchpointReached"
    /\ last.fetched = CodePosition(0, 2)
    /\ BytesAt(vm.memories[1], 32) = <<7, 0, 0, 0>>
    /\ vm.value_stack = <<>>
    /\ vm.ip = CodePosition(0, 3)
    /\ vm.trap = NoTrap

(***************************************************************************)
(* Runs near the stack limits. deep opens BlocksPerFrame blocks and calls  *)
(* itself; rec only calls itself. A run is followed from its start for     *)
(* ShallowFrames activations, and again from the state the same run is in  *)
(* when it enters a deep activation: that state has the shape DeepVM(d)    *)
(* resp. RecVM(d), which every entry of the followed runs has.             *)
(***************************************************************************)
DeepCode ==
    [k \in 1..BlocksPerFrame |-> Instr("Block", 0)] \o << Instr("Call", 0) >>
        \o [k \in 1..BlocksPerFrame |-> Instr("End", 0)] \o << Instr("End", 0) >>

RecCode == << Instr("Call", 1), Instr("End", 0) >>

ModuleL ==
    [functions |-> << Func(<<>>, <<>>, DeepCode), Func(<<>>, <<>>, RecCode) >>,
     globals |-> <<>>, memories |-> <<>>, memory_inits |-> <<>>,
     tables |-> <<>>, table_inits |-> <<>>,
     start_func |-> Some(0)]

\* the VM on entry of the d-th activation of deep, after run_func(0, [])
DeepVM(d) ==
    [VM_new(ModuleL) EXCEPT
        !.ip = CodePosition(0, 0),
        !.label_stack =
            [k \in 1..((BlocksPerFrame + 1) * (d - 1) + 1) |->
                IF (k - 1) % (BlocksPerFrame + 1) = 0 THEN Return ELSE Unbound],
        !.function_stack =
            [k \in 1..d |->
                [ret_addr |-> IF k = 1 THEN CodePosition_default
                              ELSE CodePosition(0, BlocksPerFrame + 1),
                 locals |-> <<>>]]]

\* the VM on entry of the d-th activation of rec, after run_func(1, [])
RecVM(d) ==
    [VM_new(ModuleL) EXCEPT
        !.ip = CodePosition(1, 0),
        !.label_stack = [k \in 1..d |-> Return],
        !.function_stack =
            [k \in 1..d |->
                [ret_addr |-> IF k = 1 THEN CodePosition_default ELSE CodePosition(1, 1),
                 locals |-> <<>>]]]

\* the activations at which the deep runs are taken up again
DeepEntry == LABEL_STACK_LIMIT \div (BlocksPerFrame + 1)
RecEntry == FUNCTION_STACK_LIMIT - 3

InitLimits ==
    /\ module = ModuleL
    /\ vm \in {run_func_paused(ModuleL, VM_new(ModuleL), 0, <<>>).vm, DeepVM(DeepEntry),
               run_func_paused(ModuleL, VM_new(ModuleL), 1, <<>>).vm, RecVM(RecEntry)}
    /\ InitCommon

\* whether the run is followed from this state
Followed ==
    \/ Len(vm.function_stack) <= ShallowFrames
    \/ Len(vm.function_stack) >= DeepEntry

\* VM::execute_step, called by the REPL's step command
LimitStep ==
    /\ Ready
    /\ Followed
    /\ \E r \in execute_step(module, breakpoints, vm) :
         /\ StepWith(r)
         /\ driver' = Idle

\* VM::continue_execution: one iteration of its loop
LimitContinue ==
    /\ halted = "no"
    /\ Followed
    /\ driver.mode \in {"idle", "continue"}
    /\ \E r \in execute_step(module, breakpoints, vm) :
         /\ StepWith(r)
         /\ driver' = IF ~ends_loop(r.out) THEN [mode |-> "continue", depth |-> 0, entry |-> NoPosition] ELSE Idle

NextLimits == LimitStep \/ LimitContinue

SpecLimits == InitLimits /\ [][NextLimits]_vars

\* every entry of an activation has the shape the deep runs are taken up in
EntriesHaveDeepShape ==
    (halted = "no" /\ vm.trap = NoTrap /\ last.ret = NoTrap) =>
        /\ vm.ip = CodePosition(0, 0) => vm = DeepVM(Len(vm.function_stack))
        /\ vm.ip = CodePosition(1, 0) => vm = RecVM(Len(vm.function_stack))

\* C13: in every reachable state the value stack holds at most
\* VALUE_STACK_LIMIT entries, the label stack at most LABEL_STACK_LIMIT labels
\* and the function stack at most FUNCTION_STACK_LIMIT frames.
C13_StacksWithinLimits ==
    halted = "no" =>
        /\ Len(vm.value_stack) <= VALUE_STACK_LIMIT
        /\ Len(vm.label_stack) <= LABEL_STACK_LIMIT
        /\ Len(vm.function_stack) <= FUNCTION_STACK_LIMIT

\* the steps that executed a Call instruction
CallStepped ==
    /\ tick' # tick
    /\ last'.fetched # NoPosition
    /\ InstrAt(module, last'.fetched).op = "Call"

\* C14: a Call(i) of an existing function with p parameters that succeeds pops
\* exactly p values, makes them the first p locals of the new frame in stack
\* order (the deepest popped value at index 0), appends the zero value of each
\* declared local, pushes one Return label and one frame whose ret_addr is the
\* position following the Call, and sets ip = (i, 0); a Call of a missing
\* function returns NoFunctionWithIndex(i) and pops nothing.
C14_CallProtocol ==
    [][ CallStepped =>
          LET i == InstrAt(module, last'.fetched).arg
              f == get_func(module, i)
              IN  IF ~f.some
                  THEN /\ last'.ret = Trap("NoFunctionWithIndex", i)
                       /\ vm'.value_stack = vm.value_stack
                       /\ vm'.label_stack = vm.label_stack
                       /\ vm'.function_stack = vm.function_stack
                  ELSE last'.ret.trap \in {"none", "BreakpointReached"} =>
                       LET p == Len(f.val.params)
                           n == Len(vm.value_stack)
                           frame == Last(vm'.function_stack)
                       IN  /\ n >= p
                           /\ vm'.value_stack = SubSeq(vm.value_stack, 1, n - p)
                           /\ Len(frame.locals) = p + Len(f.val.locals)
                           /\ \A k \in 1..p : frame.locals[k] = vm.value_stack[n - p + k]
                           /\ \A k \in 1..Len(f.val.locals) :
                                 frame.locals[p + k] = [t |-> f.val.locals[k], v |-> 0]
                           /\ vm'.label_stack = Append(vm.label_stack, Return)
                           /\ Front(vm'.function_stack) = vm.function_stack
                           /\ frame.ret_addr = Following(last'.fetched)
                           /\ vm'.ip = CodePosition(i, 0)
      ]_vars

\* caller has called pair(5, 6): the new frame holds 5, 6 and the zeroed locals
C14_Witness ==
    /\ module = ModuleD
    /\ last.call = "execute_step"
    /\ last.fetched = CodePosition(0, 2)
    /\ last.ret = NoTrap
    /\ vm.ip = CodePosition(1, 0)
    /\ vm.value_stack = <<>>
    /\ vm.label_stack = <<Return, Return>>
    /\ Len(vm.function_stack) = 2
    /\ Last(vm.function_stack) =
          [ret_addr |-> CodePosition(0, 3),
           locals |-> <<I32(5), I32(6), I64(0), I32(0)>>]

\* the last run_func or start succeeded and the process is alive
Started == run.started /\ halted = "no"

\* the step from the unprimed to the primed state popped the last label
PopsLastLabel == vm.label_stack # <<>> /\ vm'.label_stack = <<>>

\* C15, with its second half read for the calls of execute_step that execute an
\* instruction: after a successful run_func or start the label stack is empty if
\* and only if the sticky trap is ExecutionFinished; an execute_step that
\* executes an instruction returns ExecutionFinished exactly when it pops the
\* last label, and an execute_step that finds a sticky trap returns it again
\* and pops nothing.
C15_EmptyLabelsIffFinished ==
    [][ (run'.started /\ halted' = "no") =>
          /\ (vm'.label_stack = <<>>) <=> (vm'.trap.trap = "ExecutionFinished")
          /\ (tick' # tick /\ run.started) =>
                IF last'.fetched # NoPosition
                THEN (last'.ret.trap = "ExecutionFinished") <=> PopsLastLabel
                ELSE last'.ret = vm.trap /\ vm' = vm
      ]_vars

\* C15 as stated: after a successful run_func or start, execute_step returns
\* ExecutionFinished exactly on the step that pops the last label, and on no
\* other step.
C15_FinishedOnlyOnLastPop ==
    [][ (tick' # tick /\ Started /\ halted' = "no") =>
          ((last'.ret.trap = "ExecutionFinished") <=> PopsLastLabel)
      ]_vars

\* sel(1) has just executed its Return: the last label is popped, the frame is
\* kept, and the step returned ExecutionFinished
C15_Witness ==
    /\ module = ModuleB
    /\ Started
    /\ last.call = "execute_step"
    /\ last.fetched = CodePosition(0, 10)
    /\ last.ret.trap = "ExecutionFinished"
    /\ vm.trap.trap = "ExecutionFinished"
    /\ vm.label_stack = <<>>
    /\ Len(vm.function_stack) = 1

\* the transitions that are a call of run_func, up to its first step
RunFuncCalled == last'.call = "run_func" /\ ~last'.dirty /\ tick' = tick

\* C16: run_func(i, args) clears the stacks and the sticky trap, pushes args and
\* performs the call protocol for i; if position (i, 0) carries a code
\* breakpoint it returns BreakpointReached for it without having executed an
\* instruction; otherwise it steps until the first trap and returns that trap.
C16_RunFunc ==
    [][ /\ (RunFuncCalled /\ run'.started) =>
            LET i == run'.func
                f == get_func(module, i).val
                entry == CodePosition(i, 0)
            IN  /\ vm'.trap = NoTrap
                /\ vm'.value_stack = <<>>
                /\ vm'.label_stack = <<Return>>
                /\ vm'.ip = entry
                /\ Len(vm'.function_stack) = 1
                /\ \E c \in Calls(module) :
                      /\ c[1] = i
                      /\ vm'.function_stack[1].locals =
                            c[2] \o [k \in 1..Len(f.locals) |-> [t |-> f.locals[k], v |-> 0]]
                /\ IF CodeBp(entry) \in Held
                   THEN /\ last'.ret.trap = "BreakpointReached"
                        /\ last'.ret.arg \in DOMAIN breakpoints.index_map
                        /\ breakpoints.index_map[last'.ret.arg] = CodeBp(entry)
                        /\ driver' = Idle
                   ELSE /\ last'.ret = NoTrap
                        /\ driver'.mode = "continue"
        /\ (tick' # tick /\ driver.mode = "continue") =>
              ((driver'.mode = "continue") <=> (last'.ret = NoTrap /\ halted' = "no"))
      ]_vars

\* run_func or start has just returned a trap of its own, before any step
FailedBeforeStepping ==
    /\ last.call \in {"run_func", "start"}
    /\ last.ret # NoTrap
    /\ ~IsPause(last.ret)

\* C17: a trap that run, start or run_func returns before any instruction is
\* stepped (NoStartFunction, NoFunctionWithIndex, PopFromEmptyStack, a stack
\* overflow of the initial call) is sticky: the next execute_step returns the
\* same trap and executes no instruction.
C17_EarlyTrapsAreSticky ==
    [][ (tick' # tick /\ FailedBeforeStepping) =>
          /\ last'.ret = last.ret
          /\ last'.fetched = NoPosition
          /\ vm' = vm
      ]_vars

\* C18: execute_step_over records the depth d of the function stack on entry
\* and returns Ok right after the first step at which the depth is at most d;
\* entered with ip on a Call whose callee returns without trap, breakpoint or
\* watchpoint, it stops with ip on the instruction following the Call and the
\* depth equal to d.
C18_StepOver ==
    [][ tick' # tick =>
          \* the loop goes on only after a step that returned Ok deeper than d
          /\ driver'.mode = "step_over" =>
                /\ last'.ret = NoTrap
                /\ Len(vm'.function_stack) > driver'.depth
                /\ InstrAt(module, driver'.entry).op = "Call"
          \* d and the position are those on entry
          /\ (driver.mode = "idle" /\ driver'.mode = "step_over") =>
                /\ driver'.depth = Len(vm.function_stack)
                /\ driver'.entry = vm.ip
          /\ (driver.mode = "step_over" /\ driver'.mode = "step_over") =>
                /\ driver'.depth = driver.depth
                /\ driver'.entry = driver.entry
          \* it returns Ok at the first depth that is at most d: after the Call
          /\ (driver.mode = "step_over" /\ driver'.mode = "idle"
                /\ last'.ret = NoTrap /\ halted' = "no") =>
                /\ Len(vm'.function_stack) = driver.depth
                /\ vm'.ip = Following(driver.entry)
      ]_vars

\* step-over of main's `call inc` is about to take its last step: inc's End,
\* one frame deeper than the depth recorded on the Call at (0, 1)
C18_Witness ==
    /\ module = ModuleA
    /\ driver = [mode |-> "step_over", depth |-> 1, entry |-> CodePosition(0, 1)]
    /\ last.call = "execute_step"
    /\ last.ret = NoTrap
    /\ vm.ip = CodePosition(1, 3)
    /\ Len(vm.function_stack) = 2
    /\ Last(vm.function_stack).ret_addr = CodePosition(0, 2)
    /\ vm.value_stack = <<I32(2)>>

\* a whole call of execute_step_over that returned Ok after its first step, on
\* an instruction other than a call
SteppedOverNonCall ==
    /\ ExecuteStepOver
    /\ driver.mode = "idle"
    /\ driver'.mode = "idle"
    /\ last'.ret = NoTrap
    /\ halted' = "no"
    /\ last'.fetched # NoPosition
    /\ InstrAt(module, last'.fetched).op \notin {"Call", "CallIndirect"}

\* C19: immediately after execute_step_over returns Ok on an instruction other
\* than Call and CallIndirect (End and Return included), the depth of the
\* function stack is the same as before the call.
C19_StepOverIdentity ==
    [][ SteppedOverNonCall => Len(vm'.function_stack) = Len(vm.function_stack) ]_vars

\* the depth execute_step_out recorded on entry, seen from one of its iterations
StepOutDepth == IF driver.mode = "idle" THEN Len(vm.function_stack) ELSE driver.depth

\* an iteration of execute_step_out that ends the call, the execution having
\* met no trap other than the end of the execution
SteppedOut ==
    /\ ExecuteStepOut
    /\ driver'.mode = "idle" \/ halted' # "no"
    /\ last'.ret.trap \in {"none", "ExecutionFinished"}

\* C20: when the execution meets no trap in the current frame, execute_step_out
\* returns Ok with the depth of the function stack one below its depth on
\* entry, ip being the ret_addr of the popped frame, for every entry depth:
\* the root frame and an empty function stack included.
C20_StepOutCompletes ==
    [][ SteppedOut =>
          /\ halted' = "no"
          /\ last'.ret = NoTrap
          /\ Len(vm'.function_stack) = StepOutDepth - 1
          /\ vm.function_stack # <<>>
          /\ vm'.ip = Last(vm.function_stack).ret_addr
      ]_vars

\* C21: continue_execution, execute_step_over and execute_step_out (and the
\* loop run_func enters) return the first trap any of their execute_step calls
\* produces, BreakpointReached and WatchpointReached included, and execute no
\* instruction after it: a loop is in progress only while every step so far
\* returned Ok, and the step that returns a trap ends it.
C21_DriversPropagateFirstTrap ==
    [][ /\ (tick' # tick /\ last'.ret # NoTrap) => driver' = Idle
        /\ driver'.mode # "idle" => (last'.ret = NoTrap /\ vm'.trap = NoTrap)
      ]_vars

\* step-over of caller's `call pair` is inside pair, one step before the code
\* breakpoint at (1, 1)
C21_Witness ==
    /\ module = ModuleD
    /\ driver = [mode |-> "step_over", depth |-> 1, entry |-> CodePosition(0, 2)]
    /\ vm.ip = CodePosition(1, 0)
    /\ Len(vm.function_stack) = 2
    /\ CodePosition(1, 1) \in breakpoints.code
    /\ CodeBp(CodePosition(1, 1)) \in Held

(***************************************************************************)
(* The driver methods as whole calls: the outcomes of the loop, followed   *)
(* for at most MaxSteps steps.                                             *)
(***************************************************************************)
RECURSIVE continue_loop(_, _, _, _)
continue_loop(m, b, v, fuel) ==
    UNION {IF ends_loop(r.out) THEN {r.out}
           ELSE IF fuel = 0 THEN {Hang(r.out.vm)}
           ELSE continue_loop(m, b, r.out.vm, fuel - 1)
           : r \in execute_step(m, b, v)}

continue_execution(m, b, v) == continue_loop(m, b, v, MaxSteps)

run_func(m, b, v, index, args) ==
    LET o == run_func_paused(m, v, index, args)
    IN  IF o.end # "ok" THEN {o}
        ELSE UNION {IF r.some THEN {Err(o.vm, BreakpointReached(r.val))}
                    ELSE continue_execution(m, b, o.vm)
                    : r \in find_code(b, o.vm.ip)}

VM_run(m, b, v) ==
    IF m.start_func.some THEN run_func(m, b, v, m.start_func.val, <<>>)
    ELSE {Err(v, Trap("NoStartFunction", 0))}

VM_start(m, v) ==
    IF m.start_func.some THEN run_func_paused(m, v, m.start_func.val, <<>>)
    ELSE Err(v, Trap("NoStartFunction", 0))

RECURSIVE step_over_loop(_, _, _, _, _)
step_over_loop(m, b, v, curr_frame_index, fuel) ==
    UNION {IF ends_loop(r.out) \/ step_over_returns(curr_frame_index, r.out.vm) THEN {r.out}
           ELSE IF fuel = 0 THEN {Hang(r.out.vm)}
           ELSE step_over_loop(m, b, r.out.vm, curr_frame_index, fuel - 1)
           : r \in execute_step(m, b, v)}

execute_step_over(m, b, v) == step_over_loop(m, b, v, Len(v.function_stack), MaxSteps)

RECURSIVE step_out_loop(_, _, _, _, _)
step_out_loop(m, b, v, curr_frame_index, fuel) ==
    UNION {IF ends_loop(r.out) THEN {r.out}
           ELSE IF curr_frame_index = 0
           THEN \* curr_frame_index - 1 underflows: a panic, or a value no length equals
                {Panic(r.out.vm)} \cup
                    (IF fuel = 0 THEN {Hang(r.out.vm)}
                     ELSE step_out_loop(m, b, r.out.vm, curr_frame_index, fuel - 1))
           ELSE IF curr_frame_index - 1 = Len(r.out.vm.function_stack) THEN {r.out}
           ELSE IF fuel = 0 THEN {Hang(r.out.vm)}
           ELSE step_out_loop(m, b, r.out.vm, curr_frame_index, fuel - 1)
           : r \in execute_step(m, b, v)}

execute_step_out(m, b, v) == step_out_loop(m, b, v, Len(v.function_stack), MaxSteps)

(***************************************************************************)
(* VM::new's checks, and the Debugger facade (debugger.rs, file.rs).       *)
(***************************************************************************)
\* the first global whose initial value has another type than declared
MismatchedGlobals(m) == {i \in 1..Len(m.globals) : m.globals[i].init.t # m.globals[i].value_type}

\* a variant of VM_try_new without the type check of the globals (against which
\* the InitError of VM::new is tested)
VM_try_new_unchecked(m) == [ok |-> TRUE, vm |-> VM_new(m)]

\* VM::new: the VM, or the InitError
VM_try_new(m) ==
    IF MismatchedGlobals(m) # {}
    THEN LET i == CHOOSE i \in MismatchedGlobals(m) : \A j \in MismatchedGlobals(m) : i <= j
         IN  [ok |-> FALSE,
              err |-> [init_error |-> "MismatchedType",
                       expected |-> m.globals[i].value_type,
                       found |-> m.globals[i].init.t]]
    ELSE [ok |-> TRUE, vm |-> VM_new(m)]

\* Debugger::backtrace on a VM: ip, then the ret_addr of every frame but the
\* first, innermost first
backtrace(v) ==
    << v.ip >> \o [k \in 1..(Len(v.function_stack) - 1) |->
                      v.function_stack[Len(v.function_stack) - k + 1].ret_addr]

\* the files the REPL loads: a module that decodes, or a file that does not
LoadedFile(m) == [ok |-> TRUE, module |-> m]
BadFile == [ok |-> FALSE]
Files == {LoadedFile(ModuleC), LoadedFile(ModuleD), LoadedFile(ModuleBad), BadFile}

\* the breakpoints the REPL asks the facade for, valid or not
FacadeBreakpoints ==
    { CodeBp(CodePosition(0, 0)), CodeBp(CodePosition(0, 2)), CodeBp(CodePosition(0, 7)),
      CodeBp(CodePosition(1, 1)), GlobalBp("Read", 0), MemoryBp("Write", 32) }

\* the result of a facade call: err names the DebuggerError ("" for Ok), val is
\* the value returned, arg the argument the call was given
ResOf(name, arg, err, val) == [call |-> name, arg |-> <<arg>>, err |-> err, val |-> <<val>>]
Res(name, err, val) == ResOf(name, 0, err, val)

\* a variant of create_vm_breakpoints that gives every VM a registry of its own
\* (against which the sharing of the file's registry is tested)
create_vm_own_breakpoints(b) == Breakpoints_new

\* Rc::clone(file.breakpoints()): the registry a new VM is given
create_vm_breakpoints(b) == b

\* Debugger::new: no file, no VM
InitDbg ==
    /\ module = None
    /\ vm = None
    /\ breakpoints = Breakpoints_new
    /\ last = Res("new", "", 0)
    /\ driver = Idle
    /\ tick = FALSE
    /\ returned = <<>>
    /\ run = NoRun
    /\ mlog = NoMemOp
    /\ halted = "no"

DbgUnchanged == UNCHANGED <<driver, tick, returned, run, mlog>>

\* a facade call that fails before it changes anything
DbgFails(name, err, val) ==
    /\ last' = Res(name, err, val)
    /\ UNCHANGED <<module, vm, breakpoints, halted>>
    /\ DbgUnchanged

\* the same, for a call with an argument
DbgFailsOn(name, arg, err) ==
    /\ last' = ResOf(name, arg, err, 0)
    /\ UNCHANGED <<module, vm, breakpoints, halted>>
    /\ DbgUnchanged

\* a variant of load_file that forgets to drop the VM of the previous file
\* (against which the reset of the VM on loading is tested)
load_file_keeping_vm(f) ==
    /\ halted = "no"
    /\ IF ~f.ok THEN DbgFailsOn("load_file", f, "LoadError")
       ELSE /\ module' = Some(f.module)
            /\ breakpoints' = Breakpoints_new
            /\ last' = ResOf("load_file", f, "", 0)
            /\ UNCHANGED <<vm, halted>>
            /\ DbgUnchanged

\* Debugger::load_file
LoadFile(f) ==
    /\ halted = "no"
    /\ IF ~f.ok THEN DbgFailsOn("load_file", f, "LoadError")
       ELSE /\ module' = Some(f.module)
            /\ breakpoints' = Breakpoints_new
            /\ vm' = None
            /\ last' = ResOf("load_file", f, "", 0)
            /\ UNCHANGED halted
            /\ DbgUnchanged

\* Debugger::add_breakpoint
DbgAddBreakpoint(bp) ==
    /\ halted = "no"
    /\ breakpoints.next_index < MaxAdds
    /\ IF ~module.some THEN DbgFailsOn("add_breakpoint", bp, "NoFileLoaded")
       ELSE IF bp.kind = "Code" /\ ~valid_breakpoint(module.val, bp)
       THEN DbgFailsOn("add_breakpoint", bp, "InvalidBreakpointPosition")
       ELSE IF bp.kind = "Global" /\ ~valid_breakpoint(module.val, bp)
       THEN DbgFailsOn("add_breakpoint", bp, "InvalidWatchpointGlobal")
       ELSE /\ breakpoints' = add_breakpoint(breakpoints, bp)
            /\ last' = ResOf("add_breakpoint", bp, "", add_breakpoint_index(breakpoints))
            /\ UNCHANGED <<module, vm, halted>>
            /\ DbgUnchanged

\* Debugger::delete_breakpoint
DbgDeleteBreakpoint(index) ==
    /\ halted = "no"
    /\ IF ~module.some THEN DbgFailsOn("delete_breakpoint", index, "NoFileLoaded")
       ELSE /\ breakpoints' = delete_breakpoint(breakpoints, index)
            /\ last' = ResOf("delete_breakpoint", index, "",
                             delete_breakpoint_found(breakpoints, index))
            /\ UNCHANGED <<module, vm, halted>>
            /\ DbgUnchanged

\* Debugger::clear_breakpoints
DbgClearBreakpoints ==
    /\ halted = "no"
    /\ IF ~module.some THEN DbgFails("clear_breakpoints", "NoFileLoaded", 0)
       ELSE /\ breakpoints' = clear(breakpoints)
            /\ last' = Res("clear_breakpoints", "", 0)
            /\ UNCHANGED <<module, vm, halted>>
            /\ DbgUnchanged

\* a facade call that ran the VM to the outcome o
DbgRan(name, o, b) ==
    /\ vm' = Some(o.vm)
    /\ breakpoints' = b
    /\ halted' = HaltedBy(o.end)
    /\ last' = Res(name, "", o.trap)
    /\ UNCHANGED module
    /\ DbgUnchanged

\* Debugger::run: create_vm, then VM::run
DbgRun ==
    /\ halted = "no"
    /\ IF ~module.some THEN DbgFails("run", "NoFileLoaded", 0)
       ELSE LET created == VM_try_new(module.val)
                b == create_vm_breakpoints(breakpoints)
            IN  IF ~created.ok THEN DbgFails("run", "InitError", created.err)
                ELSE \E o \in VM_run(module.val, b, created.vm) : DbgRan("run", o, b)

\* Debugger::start: create_vm, then VM::start
DbgStart ==
    /\ halted = "no"
    /\ IF ~module.some THEN DbgFails("start", "NoFileLoaded", 0)
       ELSE LET created == VM_try_new(module.val)
                b == create_vm_breakpoints(breakpoints)
            IN  IF ~created.ok THEN DbgFails("start", "InitError", created.err)
                ELSE DbgRan("start", VM_start(module.val, created.vm), b)

\* a variant of Debugger::call that always creates a VM (against which the
\* reuse of the existing VM is tested)
DbgCall_create_vm(index, args) ==
    /\ halted = "no"
    /\ IF ~module.some THEN DbgFails("call", "NoFileLoaded", 0)
       ELSE LET created == VM_try_new(module.val)
                b == create_vm_breakpoints(breakpoints)
            IN  IF ~created.ok THEN DbgFails("call", "InitError", created.err)
                ELSE \E o \in run_func(module.val, b, created.vm, index, args) :
                        DbgRan("call", o, b)

\* Debugger::call: ensure_vm, then VM::run_func
DbgCall(index, args) ==
    /\ halted = "no"
    /\ IF vm.some
       THEN \E o \in run_func(module.val, breakpoints, vm.val, index, args) :
                DbgRan("call", o, breakpoints)
       ELSE IF ~module.some THEN DbgFails("call", "NoFileLoaded", 0)
       ELSE LET created == VM_try_new(module.val)
                b == create_vm_breakpoints(breakpoints)
            IN  IF ~created.ok THEN DbgFails("call", "InitError", created.err)
                ELSE \E o \in run_func(module.val, b, created.vm, index, args) :
                        DbgRan("call", o, b)

\* Debugger::reset_vm
DbgResetVm ==
    /\ halted = "no"
    /\ vm' = None
    /\ last' = Res("reset_vm", "", 0)
    /\ UNCHANGED <<module, breakpoints, halted>>
    /\ DbgUnchanged

\* Debugger::continue_execution
DbgContinue ==
    /\ halted = "no"
    /\ IF ~vm.some THEN DbgFails("continue_execution", "NoRunningInstance", 0)
       ELSE \E o \in continue_execution(module.val, breakpoints, vm.val) :
                DbgRan("continue_execution", o, breakpoints)

\* Debugger::execute_step
DbgStep ==
    /\ halted = "no"
    /\ IF ~vm.some THEN DbgFails("execute_step", "NoRunningInstance", 0)
       ELSE \E r \in execute_step(module.val, breakpoints, vm.val) :
                DbgRan("execute_step", r.out, breakpoints)

\* Debugger::execute_step_over
DbgStepOver ==
    /\ halted = "no"
    /\ IF ~vm.some THEN DbgFails("execute_step_over", "NoRunningInstance", 0)
       ELSE \E o \in execute_step_over(module.val, breakpoints, vm.val) :
                DbgRan("execute_step_over", o, breakpoints)

\* Debugger::execute_step_out
DbgStepOut ==
    /\ halted = "no"
    /\ IF ~vm.some THEN DbgFails("execute_step_out", "NoRunningInstance", 0)
       ELSE \E o \in execute_step_out(module.val, breakpoints, vm.val) :
                DbgRan("execute_step_out", o, breakpoints)

\* Debugger::backtrace
DbgBacktrace ==
    /\ halted = "no"
    /\ IF ~vm.some THEN DbgFails("backtrace", "NoRunningInstance", 0)
       ELSE /\ last' = Res("backtrace", "", backtrace(vm.val))
            /\ UNCHANGED <<module, vm, breakpoints, halted>>
            /\ DbgUnchanged

NextDbg ==
    \/ \E f \in Files : LoadFile(f)
    \/ \E bp \in FacadeBreakpoints : DbgAddBreakpoint(bp)
    \/ \E index \in 0..(MaxAdds - 1) : DbgDeleteBreakpoint(index)
    \/ DbgClearBreakpoints
    \/ DbgRun
    \/ DbgStart
    \/ \E c \in (IF module.some THEN Calls(module.val) ELSE { <<0, <<>> >> }) : DbgCall(c[1], c[2])
    \/ DbgResetVm
    \/ DbgContinue
    \/ DbgStep
    \/ DbgStepOver
    \/ DbgStepOut
    \/ DbgBacktrace

SpecDbg == InitDbg /\ [][NextDbg]_vars

\* the facade once the file of ModuleS is loaded
InitStore ==
    /\ module = Some(ModuleS)
    /\ vm = None
    /\ breakpoints = Breakpoints_new
    /\ last = ResOf("load_file", LoadedFile(ModuleS), "", 0)
    /\ driver = Idle
    /\ tick = FALSE
    /\ returned = <<>>
    /\ run = NoRun
    /\ mlog = NoMemOp
    /\ halted = "no"

SpecStore == InitStore /\ [][NextDbg]_vars

\* no driver call followed in SpecDbg runs out of steps
FacadeCallsReturn == halted # "hang"

\* the module has an instruction at pos
PositionExists(m, pos) ==
    /\ pos.func_index \in 0..(Len(m.functions) - 1)
    /\ pos.instr_index \in 0..(Len(m.functions[pos.func_index + 1].instructions) - 1)

\* the error Debugger::add_breakpoint is to answer bp with ("" when it accepts)
AddRejection(bp) ==
    IF ~module.some THEN "NoFileLoaded"
    ELSE IF bp.kind = "Code" /\ ~PositionExists(module.val, bp.pos)
    THEN "InvalidBreakpointPosition"
    ELSE IF bp.kind = "Global" /\ ~(bp.index \in 0..(Len(module.val.globals) - 1))
    THEN "InvalidWatchpointGlobal"
    ELSE ""

\* C22: Debugger.add_breakpoint returns NoFileLoaded without a file, accepts
\* Code(pos) only if the module has an instruction at pos (otherwise
\* InvalidBreakpointPosition), Global(_, i) only if i is below the number of
\* globals (otherwise InvalidWatchpointGlobal), and Memory(_, _) always; a
\* rejected add leaves the registry and the next fresh index unchanged, an
\* accepted one registers the breakpoint under the index it returns.
C22_AddValidation ==
    [][ last'.call = "add_breakpoint" =>
          LET bp == last'.arg[1]
              index == last'.val[1]
          IN  /\ last'.err = AddRejection(bp)
              /\ IF AddRejection(bp) # ""
                 THEN breakpoints' = breakpoints
                 ELSE /\ index = breakpoints.next_index
                      /\ DOMAIN breakpoints'.index_map =
                            DOMAIN breakpoints.index_map \cup {index}
                      /\ breakpoints'.index_map[index] = bp
                      /\ breakpoints'.next_index = breakpoints.next_index + 1
      ]_vars

\* with one breakpoint registered on ModuleD, the position (0, 7) one past
\* caller's last instruction has just been rejected
C22_Witness ==
    /\ module = Some(ModuleD)
    /\ last.call = "add_breakpoint"
    /\ last.err = "InvalidBreakpointPosition"
    /\ last.arg[1] = CodeBp(CodePosition(0, 7))
    /\ breakpoints.next_index = 1
    /\ DOMAIN breakpoints.index_map = {0}

\* the facade call that has just returned stepped a live VM onto pos
SteppedOnto(pos) ==
    /\ last'.call = "execute_step"
    /\ vm.some
    /\ vm.val.trap = NoTrap
    /\ vm'.val.ip = pos
    /\ last'.val[1].trap \in {"none", "BreakpointReached"}

NeedsInstance == {"continue_execution", "execute_step", "execute_step_over", "execute_step_out"}

\* C24: a successful load_file replaces the file, drops the VM and starts from
\* an empty registry; a failed one changes neither the file nor its registry
\* nor the VM.  While there is no VM, continue, step, step_over and step_out
\* return NoRunningInstance, and only run, start or call bring a VM back.
C24_LoadFile ==
    [][ /\ last'.call = "load_file" =>
              IF last'.err = ""
              THEN /\ module' = Some(last'.arg[1].module)
                   /\ vm' = None
                   /\ breakpoints' = Breakpoints_new
              ELSE /\ last'.err = "LoadError"
                   /\ UNCHANGED <<module, vm, breakpoints>>
        /\ (~vm.some /\ last'.call \in NeedsInstance) =>
              /\ last'.err = "NoRunningInstance"
              /\ UNCHANGED <<module, vm, breakpoints>>
        /\ (~vm.some /\ vm'.some) => last'.call \in {"run", "start", "call"}
      ]_vars

\* pair has just been loaded over another file that had breakpoints
C24_Witness ==
    /\ last.call = "load_file"
    /\ last.err = ""
    /\ last.arg[1] = LoadedFile(ModuleD)
    /\ module = Some(ModuleD)
    /\ vm = None
    /\ breakpoints = Breakpoints_new

\* the facade call that has just returned had to construct a VM
ConstructedVM ==
    /\ module.some
    /\ \/ last'.call \in {"run", "start"}
       \/ last'.call = "call" /\ ~vm.some

\* C25: when a VM has to be constructed for a module one of whose globals is
\* initialised with a value of another type than declared, run, start and
\* call return InitError with the MismatchedType of VM::new in it, and an
\* InitError leaves the file, its registry and the VM as they were.
C25_InitErrorKeepsState ==
    [][ /\ (ConstructedVM /\ MismatchedGlobals(module.val) # {}) =>
              /\ last'.err = "InitError"
              /\ \E i \in MismatchedGlobals(module.val) :
                    last'.val[1] = [init_error |-> "MismatchedType",
                                    expected |-> module.val.globals[i].value_type,
                                    found |-> module.val.globals[i].init.t]
        /\ last'.err = "InitError" =>
              /\ last'.call \in {"run", "start", "call"}
              /\ UNCHANGED <<module, vm, breakpoints>>
      ]_vars

\* run has just failed on the module with the mistyped global, with a
\* breakpoint registered
C25_Witness ==
    /\ module = Some(ModuleBad)
    /\ last.call = "run"
    /\ last.err = "InitError"
    /\ last.val[1].init_error = "MismatchedType"
    /\ vm = None
    /\ breakpoints.next_index = 1
    /\ DOMAIN breakpoints.index_map = {0}

\* C26: backtrace returns the current ip followed by the ret_addr of every
\* frame of the function stack, the root frame's last, so that it has one
\* entry more than the function stack has frames.
C26_BacktraceHasEveryFrame ==
    (last.call = "backtrace" /\ last.err = "" /\ vm.some) =>
        LET fs == vm.val.function_stack
            bt == last.val[1]
        IN  /\ Len(bt) = Len(fs) + 1
            /\ bt[1] = vm.val.ip
            /\ \A k \in 1..Len(fs) : bt[k + 1] = fs[Len(fs) - k + 1].ret_addr

\* the 16-bit halves of a stored value, least significant first
HalvesOf(value, size) ==
    CASE size \in {1, 2} -> << value >>
      [] size = 4 -> << Lo(value), Hi(value) >>
      [] size = 8 -> << Lo(value[2]), Hi(value[2]), Lo(value[1]), Hi(value[1]) >>

\* byte k (from 0) of the little-endian image of a value
LittleEndianByte(value, size, k) ==
    IF k % 2 = 0 THEN HalvesOf(value, size)[(k \div 2) + 1] % 256
    ELSE HalvesOf(value, size)[(k \div 2) + 1] \div 256

\* the addresses address .. address + size - 1
AccessRange(address, size) == {WrappingAdd(address, k) : k \in 0..(size - 1)}

\* an access reported MemoryAccessOutOfRange with the given end and changed nothing
FailedWithEnd(end) ==
    /\ mlog.result.err.trap = "MemoryAccessOutOfRange"
    /\ [pages |-> Hi(mlog.result.err.arg), rem |-> Lo(mlog.result.err.arg)] = end
    /\ vm.memories[1] = mlog.before

\* a store wrote the little-endian image of its value at its address and
\* nothing else, and a load of the same size there returns the value
StoredExactly ==
    LET now == vm.memories[1]
        A == mlog.address
        W == mlog.size
        v == mlog.value[1]
    IN  /\ MemLen(now) = MemLen(mlog.before)
        /\ \A k \in 0..(W - 1) : ByteAt(now, WrappingAdd(A, k)) = LittleEndianByte(v, W, k)
        /\ \A a \in (DOMAIN now.data \cup DOMAIN mlog.before.data) \ AccessRange(A, W) :
              ByteAt(now, a) = ByteAt(mlog.before, a)
        /\ Memory_load(now, A, W) = [ok |-> TRUE, val |-> v]

\* C27: a load or store of W bytes at address A succeeds iff A + W <= len and
\* otherwise returns MemoryAccessOutOfRange(A + W) and leaves the memory as it
\* was; a successful store changes only the bytes A .. A + W - 1, writes the
\* value in little-endian order, and a load of the same type at A returns it.
C27_AccessBoundsAndRoundTrip ==
    mlog.op \in {"load", "store"} =>
        LET end == EndOf(mlog.address, mlog.size)
        IN  /\ mlog.result.ok <=> LenLE(end, MemLen(mlog.before))
            /\ ~mlog.result.ok => FailedWithEnd(end)
            /\ mlog.op = "load" => vm.memories[1] = mlog.before
            /\ (mlog.op = "store" /\ mlog.result.ok) => StoredExactly

\* the VM is paused on the breakpoint at the entry of fact
PausedAtEntry == last.ret.trap = "BreakpointReached" /\ vm.trap = NoTrap

\* the stacks at the entry of the k-th nested activation of fact(5): the
\* callers' operands 5, 4, .. below, the argument 6 - k in local 0, and a Return
\* label per activation with the Unbound label of each caller's If between them
EntryShape(k) ==
    /\ vm.ip = CodePosition(0, 0)
    /\ vm.value_stack = [i \in 1..(k - 1) |-> I32(6 - i)]
    /\ Last(vm.function_stack).locals = << I32(6 - k) >>
    /\ vm.label_stack = [i \in 1..(2 * k - 1) |-> IF i % 2 = 1 THEN Return ELSE Unbound]

\* C28: call 0 5 on the factorial module can only finish with 120 as the one
\* value of the value stack, and once it was called no trap other than
\* ExecutionFinished arises.
\* With a breakpoint at (0, 0) every pause is at the entry of fact: the call
\* itself pauses with an empty value stack, 5 in local 0 and the label stack
\* [Return]; the first continue pauses at the entry of fact(4) with the value
\* stack [5] and the label stack [Return, Unbound, Return].
C28_Factorial ==
    /\ run.started => vm.trap \in {NoTrap, Trap("ExecutionFinished", 0)}
    /\ vm.trap = Trap("ExecutionFinished", 0) => vm.value_stack = << I32(120) >>
    /\ PausedAtEntry =>
          /\ Len(vm.function_stack) \in 1..5
          /\ EntryShape(Len(vm.function_stack))
    /\ (PausedAtEntry /\ last.call = "run_func") => Len(vm.function_stack) = 1

\* the pause of the first continue: fact(4) has just been entered
C28_Witness ==
    /\ PausedAtEntry
    /\ last.call = "execute_step"
    /\ driver = Idle
    /\ Len(vm.function_stack) = 2
    /\ vm.value_stack = << I32(5) >>
    /\ ReturnLabels(vm.label_stack) = 2

\* C28 as stated: the pause of the first continue has the value stack [5] and a
\* label stack of exactly one Return label.
C28_FirstPauseHasOneReturn ==
    (PausedAtEntry /\ last.call = "execute_step" /\ Len(vm.function_stack) = 2) =>
        /\ vm.value_stack = << I32(5) >>
        /\ vm.label_stack = << Return >>

\* the instruction the step that has just been made fetched, and the code of
\* its function
Fetched == InstrAt(module, last'.fetched)
FetchedCode == get_func(module, last'.fetched.func_index).val.instructions

\* a step of a VM without a trap fetched an instruction
SteppedInstr ==
    /\ tick' # tick
    /\ vm.trap = NoTrap
    /\ last'.fetched # NoPosition

\* Ends minus Blocks, Loops and Ifs among the instructions from .. p
Balance(code, from, p) ==
    Cardinality({i \in from..p : code[i + 1].op = "End"})
        - Cardinality({i \in from..p : code[i + 1].op \in {"Block", "Loop", "If"}})

\* the n-th unmatched End at or after from
UnmatchedEnd(code, from, n) ==
    CHOOSE p \in from..(Len(code) - 1) :
        /\ Balance(code, from, p) = n
        /\ \A q \in from..(p - 1) : Balance(code, from, q) < n

\* the depth the step branched by, or -1 when it did not branch
BranchedBy ==
    LET top == Last(vm.value_stack).v
    IN  CASE Fetched.op = "Br" -> Fetched.arg
          [] Fetched.op = "BrIf" -> IF top # 0 THEN Fetched.arg ELSE -1
          [] Fetched.op = "BrTable" ->
                IF top \in 0..(Len(Fetched.arg.table) - 1) THEN Fetched.arg.table[top + 1]
                ELSE Fetched.arg.default
          [] OTHER -> -1

\* C29: a branch of depth k (Br, a BrIf whose condition is not zero, BrTable)
\* removes the k innermost labels and keeps the target on top. If the target is
\* Bound(t), ip goes to t, the instruction after the Loop, in the same
\* function; if it is Unbound, ip goes to the (k+1)-th unmatched End after the
\* branch, and that End then pops the target; if it is a Return label the step
\* fails with InvalidBranchIndex. A BrIf whose condition is zero changes no
\* label and goes on with the next instruction.
C29_Branch ==
    [][ SteppedInstr =>
          LET k == BranchedBy
              labels == vm.label_stack
              target == labels[Len(labels) - k]
              at == last'.fetched
          IN  /\ (k >= 0 /\ k < Len(labels)) =>
                    /\ vm'.label_stack = SubSeq(labels, 1, Len(labels) - k)
                    /\ target.kind = "Bound" =>
                          /\ vm'.ip = [at EXCEPT !.instr_index = target.target]
                          /\ FetchedCode[target.target].op = "Loop"
                          /\ last'.ret.trap \in {"none", "BreakpointReached"}
                    /\ target.kind = "Unbound" =>
                          /\ vm'.ip = [at EXCEPT !.instr_index =
                                          UnmatchedEnd(FetchedCode, at.instr_index + 1, k + 1)]
                          /\ InstrAt(module, vm'.ip).op = "End"
                          /\ last'.ret.trap \in {"none", "BreakpointReached"}
                    /\ target.kind = "Return" => last'.ret.trap = "InvalidBranchIndex"
              /\ (Fetched.op = "BrIf" /\ k = -1) =>
                    /\ vm'.label_stack = labels
                    /\ vm'.ip = [at EXCEPT !.instr_index = @ + 1]
              /\ (Fetched.op = "End" /\ labels # <<>>) => vm'.label_stack = Front(labels)
      ]_vars

\* countdown has just branched from inside the block back to its loop
C29_Witness ==
    /\ module = ModuleR
    /\ last.call = "execute_step"
    /\ last.fetched = CodePosition(1, 6)
    /\ last.ret = NoTrap
    /\ vm.ip = CodePosition(1, 1)
    /\ vm.label_stack = << Return, Bound(1) >>
    /\ Last(vm.function_stack).locals = << I32(2) >>

\* Blocks, Loops and Ifs minus Ends among the instructions before p
Nesting(code, p) == 0 - Balance(code, 0, p - 1)

\* the Else that belongs to the If at position at, if it has one: the Else
\* before the End that closes the If, outside every nested Block, Loop and If
OwnElse(code, at) ==
    {p \in (at + 1)..(UnmatchedEnd(code, at + 1, 1) - 1) :
        code[p + 1].op = "Else" /\ Nesting(code, p) = Nesting(code, at + 1)}

\* C30: If pops an i32 condition and pushes an Unbound label. With a condition
\* of zero execution resumes after the Else that belongs to this If or, when it
\* has none, on the End that closes it; with another condition it goes on with
\* the then-body, and the Else reached at its end leads to the End that
\* closes the If without changing the labels. The End pops one label, so that
\* in the only active function the label stack is as deep as the nesting of
\* the instruction ip is on, plus the Return label.
C30_IfElse ==
    [][ SteppedInstr =>
          LET at == last'.fetched
              code == FetchedCode
              closing == UnmatchedEnd(code, at.instr_index + 1, 1)
          IN  /\ (Fetched.op = "If" /\ last'.ret.trap \in {"none", "BreakpointReached"}) =>
                    /\ vm'.label_stack = Append(vm.label_stack, Unbound)
                    /\ vm'.value_stack = Front(vm.value_stack)
                    /\ vm'.ip.func_index = at.func_index
                    /\ vm'.ip.instr_index =
                          IF Last(vm.value_stack).v # 0 THEN at.instr_index + 1
                          ELSE IF OwnElse(code, at.instr_index) # {}
                          THEN (CHOOSE p \in OwnElse(code, at.instr_index) : TRUE) + 1
                          ELSE closing
              /\ Fetched.op = "Else" =>
                    /\ vm'.label_stack = vm.label_stack
                    /\ vm'.ip = [at EXCEPT !.instr_index = closing]
                    /\ InstrAt(module, vm'.ip).op = "End"
              /\ (Fetched.op = "End" /\ vm.label_stack # <<>>) =>
                    vm'.label_stack = Front(vm.label_stack)
              /\ (Len(vm'.function_stack) = 1 /\ vm'.label_stack # <<>>
                    /\ last'.ret.trap \in {"none", "BreakpointReached"}) =>
                    Len(vm'.label_stack) = 1 + Nesting(code, vm'.ip.instr_index)
      ]_vars

\* ifs(0, 7) has just skipped the then-body of its first If, with the nested
\* If and Else in it, and stands after the Else of that first If
C30_Witness ==
    /\ module = ModuleI
    /\ last.call = "execute_step"
    /\ last.fetched = CodePosition(0, 1)
    /\ vm.ip = CodePosition(0, 9)
    /\ vm.label_stack = << Return, Unbound >>
    /\ vm.value_stack = <<>>
    /\ Last(vm.function_stack).locals = << I32(0), I32(7) >>

\* the labels below the innermost Return label
BelowNearestReturn(labels) ==
    LET n == CHOOSE i \in DOMAIN labels :
                /\ labels[i].kind = "Return"
                /\ \A j \in (i + 1)..Len(labels) : labels[j].kind # "Return"
    IN  SubSeq(labels, 1, n - 1)

\* the step popped the innermost frame and went back to its ret_addr
PoppedFrame ==
    /\ vm'.function_stack = Front(vm.function_stack)
    /\ vm'.ip = Last(vm.function_stack).ret_addr

\* C31: End pops one label and, if it was a Return label, pops the function
\* frame and restores ip to its ret_addr; Return pops the labels down to and
\* with the nearest Return label, pops the frame and restores ip: one frame is
\* popped per function return.
C31_ReturnPopsOneFrame ==
    [][ (SteppedInstr /\ vm.function_stack # <<>> /\ ReturnLabels(vm.label_stack) > 0) =>
          /\ Fetched.op = "End" =>
                /\ vm'.label_stack = Front(vm.label_stack)
                /\ IF Last(vm.label_stack).kind = "Return" THEN PoppedFrame
                   ELSE /\ vm'.function_stack = vm.function_stack
                        /\ vm'.ip = [last'.fetched EXCEPT !.instr_index = @ + 1]
          /\ Fetched.op = "Return" =>
                /\ vm'.label_stack = BelowNearestReturn(vm.label_stack)
                /\ PoppedFrame
      ]_vars

\* C32: every call of execute_step returns.
C32_StepReturns == halted # "hang"

\* a < b for the operands of a comparison, read as its name says
IsLess(op, a, b) ==
    CASE op = "I32LtS" -> a < b
      [] op = "I32LtU" -> ULess(a, b)
      [] op = "I64LtS" -> a[1] < b[1] \/ (a[1] = b[1] /\ ULess(a[2], b[2]))
      [] op = "I64LtU" -> ULess(a[1], b[1]) \/ (a[1] = b[1] /\ ULess(a[2], b[2]))

\* what the opposite comparison gives for the operands exchanged
GreaterExchanged(op, a, b) ==
    CASE op = "I32LtS" -> i32_binop_result("I32GtS", b, a)
      [] op = "I32LtU" -> i32_binop_result("I32GtU", b, a)
      [] op = "I64LtS" -> i64_relop_result("I64GtS", b, a)
      [] op = "I64LtU" -> i64_relop_result("I64GtU", b, a)

\* C33: i32.lt_s, i32.lt_u, i64.lt_s and i64.lt_u leave 1 on the stack exactly
\* when a < b, signed or unsigned by their name, and 0 otherwise, which is what
\* the matching gt gives for b and a.
C33_LessThan ==
    mlog.op \in {"I32LtS", "I32LtU", "I64LtS", "I64LtU"} =>
        /\ mlog.end = "ok"
        /\ vm.value_stack = << mlog.result >>
        /\ mlog.result = I32(IF IsLess(mlog.op, mlog.a[1], mlog.b[1]) THEN 1 ELSE 0)
        /\ mlog.result.v = GreaterExchanged(mlog.op, mlog.a[1], mlog.b[1])

\* the segments of the module that cover an index, by their position in the
\* module
Covering(m, index) ==
    {k \in 1..Len(m.table_inits) :
        /\ m.table_inits[k].offset <= index
        /\ index < m.table_inits[k].offset + Len(m.table_inits[k].entries)}

\* what the claim says get(index) reads: the entry of the last segment that
\* covers the index, Null where no segment does
ElementBySegments(m, index) ==
    IF Covering(m, index) = {} THEN TableElement_Null
    ELSE LET k == CHOOSE k \in Covering(m, index) : \A j \in Covering(m, index) : j <= k
             seg == m.table_inits[k]
         IN  TableElement_Func(seg.entries[index - seg.offset + 1])

\* C35: after construction get(o + i) is Func(f_i) for every element segment
\* with offset o and functions f_0 .. f_(n-1), the later segment winning where
\* two overlap, and every index no segment covers reads Null.
C35_TableInit ==
    mlog.op = "get" => mlog.result = ElementBySegments(module, mlog.index)

\* the step left the control state alone but for the ip moved past the instruction
NoCallMade ==
    /\ vm'.label_stack = vm.label_stack
    /\ vm'.function_stack = vm.function_stack
    /\ vm'.ip = [last'.fetched EXCEPT !.instr_index = @ + 1]

\* the step entered func_index by the call protocol
Called(func_index) ==
    /\ vm'.ip = CodePosition(func_index, 0)
    /\ vm'.label_stack = Append(vm.label_stack, Return)
    /\ Len(vm'.function_stack) = Len(vm.function_stack) + 1
    /\ Last(vm'.function_stack).ret_addr = [last'.fetched EXCEPT !.instr_index = @ + 1]
    /\ last'.ret.trap \in {"none", "BreakpointReached"}

\* C34: CallIndirect(sig) pops an i32 selector and reads table 0 at it. Without
\* a table the step fails with NoTable; on a Null entry or a selector past the
\* table with IndirectCalleeAbsent; on a function whose type is not sig with
\* IndirectCallTypeMismatch; and then no label and no frame is pushed and ip
\* stays behind the instruction. Otherwise the function in the entry is
\* called.
C34_CallIndirect ==
    [][ (SteppedInstr /\ Fetched.op = "CallIndirect" /\ vm.value_stack # <<>>
            /\ Last(vm.value_stack).t = "i32") =>
          LET selector == Last(vm.value_stack).v
              entries == IF module.tables = <<>> THEN <<>>
                         ELSE [i \in 1..4 |-> IF i <= Len(module.table_inits[1].entries)
                                             THEN module.table_inits[1].entries[i] ELSE -1]
              target == IF selector \in 0..3 THEN entries[selector + 1] ELSE -1
              trap == last'.ret.trap
          IN  /\ vm'.value_stack = Front(vm.value_stack)
              /\ IF module.tables = <<>> THEN trap = "NoTable" /\ NoCallMade
                 ELSE IF target = -1 THEN trap = "IndirectCalleeAbsent" /\ NoCallMade
                 ELSE IF ~get_func(module, target).some
                 THEN trap = "NoFunctionWithIndex" /\ NoCallMade
                 ELSE IF get_func(module, target).val.type_ref # Fetched.arg
                 THEN trap = "IndirectCallTypeMismatch" /\ NoCallMade
                 ELSE Called(target)
      ]_vars

\* dispatch(0) has just called unit through entry 0 of the table
C34_Witness ==
    /\ module = ModuleX
    /\ last.call = "execute_step"
    /\ last.fetched = CodePosition(0, 1)
    /\ last.ret = NoTrap
    /\ vm.ip = CodePosition(1, 0)
    /\ vm.label_stack = << Return, Return >>
    /\ Len(vm.function_stack) = 2
    /\ vm.value_stack = <<>>

\* the unit of `size` bytes at an address, as `x` prints it in hex
UnitAt(mem, address, size) ==
    [addr |-> address, val |-> format_hex(Memory_load(mem, address, size).val, size)]

\* C36: x /<N><s>x ADDR prints N consecutive units of size s, the k-th one read
\* at ADDR + k * s (when all of them lie inside the memory); so after
\* set memory 0x10 = 0x41424344 i32, x /4bx 0x10 prints 44 43 42 41.
C36_ExamineConsecutive ==
    (mlog.op = "x"
        /\ ~access_out_of_range(mlog.before, mlog.address, mlog.count * mlog.size)) =>
       /\ mlog.ok
       /\ mlog.lines = [k \in 1..mlog.count |->
                           UnitAt(mlog.before, mlog.address + (k - 1) * mlog.size, mlog.size)]

\* the base address a load or store is about to pop
BaseOf(v, op) ==
    IF op = "I32Load" THEN Last(v.value_stack).v ELSE v.value_stack[Len(v.value_stack) - 1].v

\* C37: a load or store whose base plus offset is 2^32 or more does not access
\* the memory at the sum modulo 2^32: it fails as out of range, the memory
\* is unchanged and nothing is loaded.
C37_NoWrappedAccess ==
    [][ (SteppedInstr /\ Fetched.op \in {"I32Load", "I32Store"}
            /\ AddOverflows(BaseOf(vm, Fetched.op), Fetched.arg)) =>
          /\ last'.ret.trap = "MemoryAccessOutOfRange"
          /\ vm'.memories = vm.memories
          /\ Len(vm'.value_stack) < Len(vm.value_stack)
      ]_vars

\* C38: Br, BrIf, BrTable, Else, End and Return leave the value stack as it
\* was, but for the i32 condition or selector BrIf and BrTable pop; globals and
\* memories are untouched.
C38_TransfersKeepOperands ==
    [][ (SteppedInstr /\ Fetched.op \in {"Br", "BrIf", "BrTable", "Else", "End", "Return"}) =>
          /\ vm'.value_stack = IF Fetched.op \in {"BrIf", "BrTable"}
                               THEN Front(vm.value_stack) ELSE vm.value_stack
          /\ vm'.globals = vm.globals
          /\ vm'.memories = vm.memories
      ]_vars

\* keep(1) called from callkeep has returned over the four operands it left
C38_Witness ==
    /\ module = ModuleK
    /\ last.call = "execute_step"
    /\ last.fetched = CodePosition(0, 18)
    /\ last.ret = NoTrap
    /\ vm.ip = CodePosition(1, 2)
    /\ Len(vm.function_stack) = 1
    /\ vm.value_stack = << I32(7), I32(8), I32(9), I32(1) >>

\* a VM as VM::new builds it, but holding the globals and memories of v
FreshKeeping(m, v) == [VM_new(m) EXCEPT !.globals = v.globals, !.memories = v.memories]

\* C39: Debugger::call on an existing VM runs the function as on a new VM
\* that holds the globals and memories of the existing one: ip, the three
\* stacks and the sticky trap start afresh, globals and memory are kept.
\* Debugger::run and Debugger::start run on a VM built anew from the module.
C39_CallReusesRunRebuilds ==
    [][ (last'.call \in {"run", "start", "call"} /\ last'.err = "") =>
          LET from == IF last'.call = "call" /\ vm.some
                      THEN FreshKeeping(module.val, vm.val) ELSE VM_new(module.val)
          IN  /\ vm'.some
              /\ CASE last'.call = "call" ->
                        \E c \in Calls(module.val) :
                           \E o \in run_func(module.val, breakpoints', from, c[1], c[2]) :
                              o.vm = vm'.val
                   [] last'.call = "run" ->
                        \E o \in VM_run(module.val, breakpoints', from) : o.vm = vm'.val
                   [] last'.call = "start" -> VM_start(module.val, from).vm = vm'.val
      ]_vars

\* idle has been called on a VM that ran set before: the global and the
\* memory still hold what set wrote
C39_Witness ==
    /\ module = Some(ModuleS)
    /\ last.call = "call"
    /\ last.err = ""
    /\ vm.some
    /\ vm.val.ip.func_index = 1
    /\ vm.val.globals = << I32(1) >>
    /\ ByteAt(vm.val.memories[1], 32) = 7

====
